---- MODULE Spec2Model ----
(***************************************************************************)
(* Splitz-AI: the expense / settlement record store and the balance views  *)
(* computed from it (convex/groups.js, convex/dashboard.js,                *)
(* convex/settlements.js), the mutations that fill the users and groups    *)
(* tables (users.store, contacts.createGroup), the seed mutation           *)
(* (seed.seedDatabase), the expense form with its split selector, and the  *)
(* useConvexMutation hook.                                                 *)
(*                                                                         *)
(* User and group ids are Convex id strings; they are modelled as small    *)
(* integers whose order stands for the string order the netting pass       *)
(* compares with (a >= b).  Amounts are JS numbers; the balance views are  *)
(* modelled on whole amounts, on which JS arithmetic is exact, and the     *)
(* expense form on doubles at hundredths.  The records of a group name     *)
(* members of that group only: the group ledgers have no cell for anyone   *)
(* else.  A split list may name a user more than once and may mark any     *)
(* split paid.  The user a query or mutation runs for is given as the id   *)
(* of the profile getCurrentUser returns for the caller.                   *)
(***************************************************************************)
EXTENDS Integers, Sequences, FiniteSets, TLC

VARIABLES
    users,         \* table "users": id -> [tokenIdentifier, name] of each profile
    groups,        \* table "groups", members[i].userId: id -> sequence of user ids
    groupDocs,     \* table "groups", the other fields: id -> [name, createdBy, roles]
    expenses,      \* table "expenses", in insertion order
    settlements,   \* table "settlements", in insertion order
    lastError,     \* outcome of the last mutation: "none" or the thrown message
    form,          \* ExpenseForm: its fields, the splits state and the form state
    toast,         \* the last toast shown: [kind, message]
    hook,          \* useConvexMutation state: [data, isLoading, error]
    calls          \* mutate calls of the hook: call id -> its position and outcome

clientVars == <<form, toast, hook, calls>>
vars == <<users, groups, groupDocs, expenses, settlements, lastError, form, toast,
          hook, calls>>

(***************************************************************************)
(* Bounds of the model.                                                    *)
(***************************************************************************)
NumUsers == 3
MaxExpenses == 2
MaxSettlements == 2
MaxSplits == 3
MaxMixedSettlements == 1

UserIds == 1..NumUsers
NoGroup == 0                     \* groupId: undefined
\* seed.js createGroups, members[i].userId of "Weekend Trip", "Office Expenses"
\* and "Project Alpha" (users[0], users[1], users[2] are the ids 1, 2, 3).
SeedGroups == (1 :> <<1, 2, 3>>) @@ (2 :> <<2, 3>>) @@ (3 :> <<3, 1, 2>>)
\* groupDatas[i].name, a name being the sequence of its characters.
SeedGroupNames ==
    (1 :> <<"W", "e", "e", "k", "e", "n", "d", " ", "T", "r", "i", "p">>)
    @@ (2 :> <<"O", "f", "f", "i", "c", "e", " ",
               "E", "x", "p", "e", "n", "s", "e", "s">>)
    @@ (3 :> <<"P", "r", "o", "j", "e", "c", "t", " ", "A", "l", "p", "h", "a">>)
GroupIdArgs == {NoGroup, 1, 2, 3, 4}  \* 4 resolves to no group
Amounts == {100, 500}
AmountArgs == {-100, 0, 100, 500}
UserIdArgs == 0..(NumUsers + 1)    \* 0 and NumUsers + 1 never had a profile
EntityTypes == {"user", "group", "team"}

\* JS undefined and null, where a field or a result holds them.
Undefined == "undefined"
Null == "null"

Range(s) == {s[i] : i \in DOMAIN s}
Abs(x) == IF x < 0 THEN -x ELSE x
Max(x, y) == IF x >= y THEN x ELSE y

(***************************************************************************)
(* Record selection (ctx.db.query(...).collect()): insertion order kept.   *)
(***************************************************************************)
GroupRecords(table, gid) == 
    LET InGroup(r) == r.groupId = gid IN SelectSeq(table, InGroup)

IsMember(gid, uid) == \E i \in DOMAIN groups[gid] : groups[gid][i] = uid

\* The name stored in the profile of uid.
UserName(uid) == users[uid].name

\* counterpart?.name ?? "Unknown" (dashboard.js): the stored name, or the
\* placeholder when ctx.db.get(uid) returns null or the profile has no name.
DisplayName(uid) ==
    IF uid \in DOMAIN users /\ UserName(uid) # Undefined THEN UserName(uid)
    ELSE "Unknown"

\* m?.name || "Unknown" (settlements.js, group page): the placeholder stands
\* for the empty name as well.
MemberName(uid) ==
    IF uid \in DOMAIN users /\ UserName(uid) \notin {Undefined, ""} THEN UserName(uid)
    ELSE "Unknown"

(***************************************************************************)
(* getGroupExpenses: totals and the pair-wise ledger debtor -> creditor.   *)
(***************************************************************************)
ZeroLedger(ids) ==
    [totals |-> [a \in Range(ids) |-> 0],
     ledger |-> [a \in Range(ids) |-> [b \in Range(ids) \ {a} |-> 0]]]

RECURSIVE ApplySplitsIgnoringPaid(_, _, _)
ApplySplitsIgnoringPaid(st, payer, splits) ==
    IF splits = <<>> THEN st
    ELSE LET split == Head(splits)
             debtor == split.userId
             amt == split.amount
         IN  IF split.userId = payer
             THEN ApplySplitsIgnoringPaid(st, payer, Tail(splits))
             ELSE ApplySplitsIgnoringPaid(
                    [totals |-> [st.totals EXCEPT ![payer] = @ + amt,
                                                  ![debtor] = @ - amt],
                     ledger |-> [st.ledger EXCEPT ![debtor][payer] = @ + amt]],
                    payer, Tail(splits))

RECURSIVE ApplySplits(_, _, _)
ApplySplits(st, payer, splits) ==
    IF splits = <<>> THEN st
    ELSE LET split == Head(splits)
             debtor == split.userId
             amt == split.amount
         IN  IF split.userId = payer \/ split.paid
             THEN ApplySplits(st, payer, Tail(splits))
             ELSE ApplySplits(
                    [totals |-> [st.totals EXCEPT ![payer] = @ + amt,
                                                  ![debtor] = @ - amt],
                     ledger |-> [st.ledger EXCEPT ![debtor][payer] = @ + amt]],
                    payer, Tail(splits))

RECURSIVE ApplyExpenses(_, _)
ApplyExpenses(st, exps) ==
    IF exps = <<>> THEN st
    ELSE ApplyExpenses(ApplySplits(st, Head(exps).paidByUserId, Head(exps).splits),
                       Tail(exps))

RECURSIVE ApplySettlementsReversed(_, _)
ApplySettlementsReversed(st, sts) ==
    IF sts = <<>> THEN st
    ELSE LET s == Head(sts) IN
         ApplySettlementsReversed(
           [totals |-> [st.totals EXCEPT ![s.paidByUserId] = @ + s.amount,
                                         ![s.receivedByUserId] = @ - s.amount],
            ledger |-> [st.ledger EXCEPT
                          ![s.receivedByUserId][s.paidByUserId] = @ - s.amount]],
           Tail(sts))

\* The settlement loop without the receiver's side of the totals.
RECURSIVE ApplySettlementsPayerOnly(_, _)
ApplySettlementsPayerOnly(st, sts) ==
    IF sts = <<>> THEN st
    ELSE LET s == Head(sts) IN
         ApplySettlementsPayerOnly(
           [totals |-> [st.totals EXCEPT ![s.paidByUserId] = @ + s.amount],
            ledger |-> [st.ledger EXCEPT
                          ![s.paidByUserId][s.receivedByUserId] = @ - s.amount]],
           Tail(sts))

RECURSIVE ApplySettlements(_, _)
ApplySettlements(st, sts) ==
    IF sts = <<>> THEN st
    ELSE LET s == Head(sts) IN
         ApplySettlements(
           [totals |-> [st.totals EXCEPT ![s.paidByUserId] = @ + s.amount,
                                         ![s.receivedByUserId] = @ - s.amount],
            ledger |-> [st.ledger EXCEPT
                          ![s.paidByUserId][s.receivedByUserId] = @ - s.amount]],
           Tail(sts))

\* One visit of the netting loop body for the pair (a, b).
NetPairZeroless(ledger, a, b) ==
    IF a >= b THEN ledger
    ELSE LET diff == ledger[a][b] - ledger[b][a] IN
         IF diff > 0 THEN [ledger EXCEPT ![a][b] = diff]
         ELSE IF diff < 0 THEN [ledger EXCEPT ![b][a] = -diff]
         ELSE [ledger EXCEPT ![a][b] = 0, ![b][a] = 0]

NetPairNoNegate(ledger, a, b) ==
    IF a >= b THEN ledger
    ELSE LET diff == ledger[a][b] - ledger[b][a] IN
         IF diff > 0 THEN [ledger EXCEPT ![a][b] = diff, ![b][a] = 0]
         ELSE IF diff < 0 THEN [ledger EXCEPT ![b][a] = diff, ![a][b] = 0]
         ELSE [ledger EXCEPT ![a][b] = 0, ![b][a] = 0]

NetPairSwapped(ledger, a, b) ==
    IF a >= b THEN ledger
    ELSE LET diff == ledger[a][b] - ledger[b][a] IN
         IF diff > 0 THEN [ledger EXCEPT ![b][a] = diff, ![a][b] = 0]
         ELSE IF diff < 0 THEN [ledger EXCEPT ![a][b] = -diff, ![b][a] = 0]
         ELSE [ledger EXCEPT ![a][b] = 0, ![b][a] = 0]

NetPair(ledger, a, b) ==
    IF a >= b THEN ledger
    ELSE LET diff == ledger[a][b] - ledger[b][a] IN
         IF diff > 0 THEN [ledger EXCEPT ![a][b] = diff, ![b][a] = 0]
         ELSE IF diff < 0 THEN [ledger EXCEPT ![b][a] = -diff, ![a][b] = 0]
         ELSE [ledger EXCEPT ![a][b] = 0, ![b][a] = 0]

\* ids.forEach(a => ids.forEach(b => ...)): visits k = 1 .. n*n in row order.
\* (The singleton set binds the ledger left by visit k to a value before the
\* remaining visits read it.)
RECURSIVE NetFrom(_, _, _)
NetFrom(ledger, ids, k) ==
    LET n == Len(ids) IN
    IF k > n * n THEN ledger
    ELSE CHOOSE result \in
             {NetFrom(visited, ids, k + 1) :
                visited \in {NetPair(ledger, ids[((k - 1) \div n) + 1],
                                     ids[((k - 1) % n) + 1])}} : TRUE

NetLedger(ledger, ids) == NetFrom(ledger, ids, 1)

\* The ledgers of a group before the netting pass.
RawGroupLedger(gid) ==
    ApplySettlements(
        ApplyExpenses(ZeroLedger(groups[gid]), GroupRecords(expenses, gid)),
        GroupRecords(settlements, gid))

RECURSIVE OwesList(_, _, _)
OwesList(ledger, m, ids) ==
    IF ids = <<>> THEN <<>>
    ELSE IF Head(ids) # m /\ ledger[m][Head(ids)] > 0
         THEN <<[to |-> Head(ids), amount |-> ledger[m][Head(ids)]]>>
              \o OwesList(ledger, m, Tail(ids))
         ELSE OwesList(ledger, m, Tail(ids))

RECURSIVE OwedByListTransposed(_, _, _)
OwedByListTransposed(ledger, m, ids) ==
    IF ids = <<>> THEN <<>>
    ELSE IF Head(ids) # m /\ ledger[m][Head(ids)] > 0
         THEN <<[from |-> Head(ids), amount |-> ledger[m][Head(ids)]]>>
              \o OwedByListTransposed(ledger, m, Tail(ids))
         ELSE OwedByListTransposed(ledger, m, Tail(ids))

RECURSIVE OwedByList(_, _, _)
OwedByList(ledger, m, ids) ==
    IF ids = <<>> THEN <<>>
    ELSE IF Head(ids) # m /\ ledger[Head(ids)][m] > 0
         THEN <<[from |-> Head(ids), amount |-> ledger[Head(ids)][m]]>>
              \o OwedByList(ledger, m, Tail(ids))
         ELSE OwedByList(ledger, m, Tail(ids))

GetGroupExpenses(caller, gid) ==
    IF gid \notin DOMAIN groups THEN [error |-> "Group not found"]
    ELSE IF ~IsMember(gid, caller)
    THEN [error |-> "You are not a member of this group"]
    ELSE IF \E i \in DOMAIN groups[gid] : groups[gid][i] \notin DOMAIN users
    THEN [error |-> "TypeError: Cannot read properties of null (reading '_id')"]
    ELSE LET ids == groups[gid]
             raw == RawGroupLedger(gid)
             ledger == NetLedger(raw.ledger, ids)
         IN  [error |-> "none",
              members |-> [i \in DOMAIN ids |->
                             [id |-> ids[i], name |-> UserName(ids[i])]],
              ledger |-> ledger,
              balances |-> [i \in DOMAIN ids |->
                              [id |-> ids[i],
                               totalBalance |-> raw.totals[ids[i]],
                               owes |-> OwesList(ledger, ids[i], ids),
                               owedBy |-> OwedByList(ledger, ids[i], ids)]]]

(***************************************************************************)
(* getUserBalances: the 1-to-1 dashboard of one user.                      *)
(***************************************************************************)
\* Array.prototype.find over a sequence whose i-th flag tells whether the i-th
\* element passes the test: the index of the first that does, 0 when none does.
RECURSIVE FindFrom(_, _)
FindFrom(flags, i) ==
    IF i > Len(flags) THEN 0
    ELSE IF flags[i] THEN i
    ELSE FindFrom(flags, i + 1)

Find(flags) == FindFrom(flags, 1)

\* (balanceByUser[uid] ??= { owed: 0, owing: 0 }) with both fields adjusted;
\* a new counterpart is appended, so the sequence keeps first-seen order.
Bump(bal, uid, dOwed, dOwing) ==
    LET i == Find([k \in DOMAIN bal |-> bal[k].userId = uid])
    IN  IF i = 0
        THEN Append(bal, [userId |-> uid, owed |-> dOwed, owing |-> dOwing])
        ELSE [bal EXCEPT ![i] = [userId |-> uid,
                                 owed |-> @.owed + dOwed,
                                 owing |-> @.owing + dOwing]]

RECURSIVE PayerSplits(_, _, _)
PayerSplits(st, user, splits) ==
    IF splits = <<>> THEN st
    ELSE LET s == Head(splits) IN
         IF s.userId = user \/ s.paid THEN PayerSplits(st, user, Tail(splits))
         ELSE PayerSplits([youOwe |-> st.youOwe,
                           youAreOwed |-> st.youAreOwed + s.amount,
                           bal |-> Bump(st.bal, s.userId, s.amount, 0)],
                          user, Tail(splits))

DashboardExpense(st, user, e) ==
    LET i == Find([k \in DOMAIN e.splits |-> e.splits[k].userId = user])
    IN  IF e.paidByUserId = user THEN PayerSplits(st, user, e.splits)
        ELSE IF i # 0 /\ ~e.splits[i].paid
        THEN [youOwe |-> st.youOwe + e.splits[i].amount,
              youAreOwed |-> st.youAreOwed,
              bal |-> Bump(st.bal, e.paidByUserId, 0, e.splits[i].amount)]
        ELSE st

RECURSIVE DashboardExpenses(_, _, _)
DashboardExpenses(st, user, exps) ==
    IF exps = <<>> THEN st
    ELSE DashboardExpenses(DashboardExpense(st, user, Head(exps)), user, Tail(exps))

DashboardSettlement(st, user, s) ==
    IF s.paidByUserId = user
    THEN [youOwe |-> st.youOwe - s.amount,
          youAreOwed |-> st.youAreOwed,
          bal |-> Bump(st.bal, s.receivedByUserId, 0, -s.amount)]
    ELSE [youOwe |-> st.youOwe,
          youAreOwed |-> st.youAreOwed - s.amount,
          bal |-> Bump(st.bal, s.paidByUserId, -s.amount, 0)]

RECURSIVE DashboardSettlements(_, _, _)
DashboardSettlements(st, user, sts) ==
    IF sts = <<>> THEN st
    ELSE DashboardSettlements(DashboardSettlement(st, user, Head(sts)), user, Tail(sts))

\* The entries of balanceByUser pushed to one of the two lists, in iteration
\* order: owedSide picks net > 0 (youAreOwedBy), otherwise net < 0 (youOwe).
RECURSIVE OweEntriesEitherSign(_, _)
OweEntriesEitherSign(bal, owedSide) ==
    IF bal = <<>> THEN <<>>
    ELSE LET net == Head(bal).owed - Head(bal).owing IN
         IF net # 0
         THEN <<[userId |-> Head(bal).userId,
                 name |-> DisplayName(Head(bal).userId),
                 amount |-> Abs(net)]>>
              \o OweEntriesEitherSign(Tail(bal), owedSide)
         ELSE OweEntriesEitherSign(Tail(bal), owedSide)

RECURSIVE OweEntries(_, _)
OweEntries(bal, owedSide) ==
    IF bal = <<>> THEN <<>>
    ELSE LET net == Head(bal).owed - Head(bal).owing IN
         IF net # 0 /\ ((net > 0) = owedSide)
         THEN <<[userId |-> Head(bal).userId,
                 name |-> DisplayName(Head(bal).userId),
                 amount |-> Abs(net)]>>
              \o OweEntries(Tail(bal), owedSide)
         ELSE OweEntries(Tail(bal), owedSide)

\* list.sort((a, b) => b.amount - a.amount): descending, stable.
RECURSIVE InsertDescTiesFirst(_, _)
InsertDescTiesFirst(sorted, x) ==
    IF sorted = <<>> THEN <<x>>
    ELSE IF Head(sorted).amount > x.amount
         THEN <<Head(sorted)>> \o InsertDescTiesFirst(Tail(sorted), x)
         ELSE <<x>> \o sorted

RECURSIVE InsertDesc(_, _)
InsertDesc(sorted, x) ==
    IF sorted = <<>> THEN <<x>>
    ELSE IF Head(sorted).amount >= x.amount
         THEN <<Head(sorted)>> \o InsertDesc(Tail(sorted), x)
         ELSE <<x>> \o sorted

RECURSIVE SortDescFrom(_, _)
SortDescFrom(sorted, rest) ==
    IF rest = <<>> THEN sorted
    ELSE SortDescFrom(InsertDesc(sorted, Head(rest)), Tail(rest))

SortDesc(list) == SortDescFrom(<<>>, list)

GetUserBalances(user) ==
    LET Mine(e) == /\ e.groupId = NoGroup
                   /\ \/ e.paidByUserId = user
                      \/ \E i \in DOMAIN e.splits : e.splits[i].userId = user
        Involved(s) == /\ s.groupId = NoGroup
                       /\ (s.paidByUserId = user \/ s.receivedByUserId = user)
        st0 == [youOwe |-> 0, youAreOwed |-> 0, bal |-> <<>>]
        st1 == DashboardExpenses(st0, user, SelectSeq(expenses, Mine))
        st2 == DashboardSettlements(st1, user, SelectSeq(settlements, Involved))
    IN  [youOwe |-> st2.youOwe,
         youAreOwed |-> st2.youAreOwed,
         totalBalance |-> st2.youAreOwed - st2.youOwe,
         oweDetails |-> [youOwe |-> SortDesc(OweEntries(st2.bal, FALSE)),
                         youAreOwedBy |-> SortDesc(OweEntries(st2.bal, TRUE))]]

(***************************************************************************)
(* GroupBalances component: the two lists shown to the current user.       *)
(***************************************************************************)
GroupBalances(currentUser, balances) ==
    LET i == Find([k \in DOMAIN balances |-> balances[k].id = currentUser]) IN
    IF balances = <<>> \/ i = 0 THEN [shown |-> FALSE]
    ELSE LET me == balances[i] IN
         [shown |-> TRUE,
          owedByMembers |->
              SortDesc([k \in DOMAIN me.owedBy |->
                          [id |-> me.owedBy[k].from, amount |-> me.owedBy[k].amount]]),
          owingToMembers |->
              SortDesc([k \in DOMAIN me.owes |->
                          [id |-> me.owes[k].to, amount |-> me.owes[k].amount]])]

(***************************************************************************)
(* getUserGroups: the signed balance of one user in each of its groups.    *)
(***************************************************************************)
RECURSIVE UserGroupSplits(_, _, _)
UserGroupSplits(balance, user, splits) ==
    IF splits = <<>> THEN balance
    ELSE UserGroupSplits(
           IF Head(splits).userId # user /\ ~Head(splits).paid
           THEN balance + Head(splits).amount ELSE balance,
           user, Tail(splits))

UserGroupExpense(balance, user, e) ==
    LET i == Find([k \in DOMAIN e.splits |-> e.splits[k].userId = user])
    IN  IF e.paidByUserId = user THEN UserGroupSplits(balance, user, e.splits)
        ELSE IF i # 0 /\ ~e.splits[i].paid THEN balance - e.splits[i].amount
        ELSE balance

RECURSIVE UserGroupExpenses(_, _, _)
UserGroupExpenses(balance, user, exps) ==
    IF exps = <<>> THEN balance
    ELSE UserGroupExpenses(UserGroupExpense(balance, user, Head(exps)), user, Tail(exps))

RECURSIVE UserGroupSettlements(_, _, _)
UserGroupSettlements(balance, user, sts) ==
    IF sts = <<>> THEN balance
    ELSE UserGroupSettlements(
           IF Head(sts).paidByUserId = user
           THEN balance + Head(sts).amount ELSE balance - Head(sts).amount,
           user, Tail(sts))

UserGroupBalance(user, gid) ==
    LET Involved(st) == st.paidByUserId = user \/ st.receivedByUserId = user
    IN  UserGroupSettlements(
            UserGroupExpenses(0, user, GroupRecords(expenses, gid)),
            user, SelectSeq(GroupRecords(settlements, gid), Involved))

\* The groups of the user in table order, each with its balance.
RECURSIVE UserGroupsFrom(_, _)
UserGroupsFrom(user, gid) ==
    IF gid \notin DOMAIN groups THEN <<>>
    ELSE (IF IsMember(gid, user)
          THEN <<[id |-> gid, balance |-> UserGroupBalance(user, gid)]>> ELSE <<>>)
         \o UserGroupsFrom(user, gid + 1)

GetUserGroups(user) == UserGroupsFrom(user, 1)

(***************************************************************************)
(* getSettlementData: the settlement page of a user or of a group.         *)
(***************************************************************************)
\* One expense of the user page: what it adds to owed (they owe me) and owing.
UserPageExpense(st, me, other, e) ==
    LET involvesMe == \/ e.paidByUserId = me
                      \/ \E i \in DOMAIN e.splits : e.splits[i].userId = me
        involvesThem == \/ e.paidByUserId = other
                        \/ \E i \in DOMAIN e.splits : e.splits[i].userId = other
        i == Find([k \in DOMAIN e.splits |->
                     e.splits[k].userId = other /\ ~e.splits[k].paid])
        j == Find([k \in DOMAIN e.splits |->
                     e.splits[k].userId = me /\ ~e.splits[k].paid])
        owed1 == IF e.paidByUserId = me /\ i # 0
                 THEN st.owed + e.splits[i].amount ELSE st.owed
        owing1 == IF e.paidByUserId = other /\ j # 0
                  THEN st.owing + e.splits[j].amount ELSE st.owing
    IN  IF ~involvesMe \/ ~involvesThem THEN st
        ELSE [owed |-> owed1, owing |-> owing1]

RECURSIVE UserPageExpenses(_, _, _, _)
UserPageExpenses(st, me, other, exps) ==
    IF exps = <<>> THEN st
    ELSE UserPageExpenses(UserPageExpense(st, me, other, Head(exps)), me, other,
                          Tail(exps))

RECURSIVE UserPageSettlementsUnclamped(_, _, _)
UserPageSettlementsUnclamped(st, me, sts) ==
    IF sts = <<>> THEN st
    ELSE UserPageSettlementsUnclamped(
           IF Head(sts).paidByUserId = me
           THEN [owed |-> st.owed, owing |-> st.owing - Head(sts).amount]
           ELSE [owed |-> st.owed - Head(sts).amount, owing |-> st.owing],
           me, Tail(sts))

RECURSIVE UserPageSettlements(_, _, _)
UserPageSettlements(st, me, sts) ==
    IF sts = <<>> THEN st
    ELSE UserPageSettlements(
           IF Head(sts).paidByUserId = me
           THEN [owed |-> st.owed, owing |-> Max(0, st.owing - Head(sts).amount)]
           ELSE [owed |-> Max(0, st.owed - Head(sts).amount), owing |-> st.owing],
           me, Tail(sts))

\* Records paid by uid outside any group (index by_user_and_group).
PaidAnyScope(table, uid) ==
    LET Test(r) == r.paidByUserId = uid IN SelectSeq(table, Test)

PaidOneToOne(table, uid) ==
    LET Test(r) == r.paidByUserId = uid /\ r.groupId = NoGroup IN SelectSeq(table, Test)

UserPageResultNegated(other, owed, owing) ==
    [error |-> "none", type |-> "user",
     counterpart |-> [userId |-> other, name |-> UserName(other)],
     youAreOwed |-> owed, youOwe |-> owing, netBalance |-> owing - owed]

UserPageResult(other, owed, owing) ==
    [error |-> "none", type |-> "user",
     counterpart |-> [userId |-> other, name |-> UserName(other)],
     youAreOwed |-> owed, youOwe |-> owing, netBalance |-> owed - owing]

UserPage(me, other) ==
    IF other \notin DOMAIN users THEN [error |-> "User not found"]
    ELSE LET st1 == UserPageExpenses([owed |-> 0, owing |-> 0], me, other,
                        PaidOneToOne(expenses, me) \o PaidOneToOne(expenses, other))
             st2 == UserPageSettlements(st1, me,
                        PaidOneToOne(settlements, me) \o PaidOneToOne(settlements, other))
         IN  UserPageResult(other, st2.owed, st2.owing)

\* balances[uid] of the group page: the tallies of the members other than me,
\* in member order.
AddOwed(bal, uid, amt) ==
    [i \in DOMAIN bal |->
        IF bal[i].userId = uid
        THEN [userId |-> uid, owed |-> bal[i].owed + amt, owing |-> bal[i].owing]
        ELSE bal[i]]

AddOwing(bal, uid, amt) ==
    [i \in DOMAIN bal |->
        IF bal[i].userId = uid
        THEN [userId |-> uid, owed |-> bal[i].owed, owing |-> bal[i].owing + amt]
        ELSE bal[i]]

PayDownOwed(bal, uid, amt) ==
    [i \in DOMAIN bal |->
        IF bal[i].userId = uid
        THEN [userId |-> uid, owed |-> Max(0, bal[i].owed - amt), owing |-> bal[i].owing]
        ELSE bal[i]]

PayDownOwing(bal, uid, amt) ==
    [i \in DOMAIN bal |->
        IF bal[i].userId = uid
        THEN [userId |-> uid, owed |-> bal[i].owed, owing |-> Max(0, bal[i].owing - amt)]
        ELSE bal[i]]

RECURSIVE GroupPageMySplits(_, _, _)
GroupPageMySplits(bal, me, splits) ==
    IF splits = <<>> THEN bal
    ELSE IF Head(splits).userId # me /\ ~Head(splits).paid
         THEN GroupPageMySplits(AddOwed(bal, Head(splits).userId, Head(splits).amount),
                                me, Tail(splits))
         ELSE GroupPageMySplits(bal, me, Tail(splits))

GroupPageExpense(bal, me, e) ==
    LET j == Find([k \in DOMAIN e.splits |->
                     e.splits[k].userId = me /\ ~e.splits[k].paid])
    IN  IF e.paidByUserId = me THEN GroupPageMySplits(bal, me, e.splits)
        ELSE IF j # 0 THEN AddOwing(bal, e.paidByUserId, e.splits[j].amount)
        ELSE bal

RECURSIVE GroupPageExpenses(_, _, _)
GroupPageExpenses(bal, me, exps) ==
    IF exps = <<>> THEN bal
    ELSE GroupPageExpenses(GroupPageExpense(bal, me, Head(exps)), me, Tail(exps))

GroupPageSettlement(bal, me, st) ==
    LET b1 == IF st.paidByUserId = me
              THEN PayDownOwing(bal, st.receivedByUserId, st.amount) ELSE bal
    IN  IF st.receivedByUserId = me
        THEN PayDownOwed(b1, st.paidByUserId, st.amount) ELSE b1

RECURSIVE GroupPageSettlements(_, _, _)
GroupPageSettlements(bal, me, sts) ==
    IF sts = <<>> THEN bal
    ELSE GroupPageSettlements(GroupPageSettlement(bal, me, Head(sts)), me, Tail(sts))

GroupPageNoMemberCheck(me, gid) ==
    IF gid \notin DOMAIN groups THEN [error |-> "Group not found"]
    ELSE LET NotMe(uid) == uid # me
             others == SelectSeq(groups[gid], NotMe)
             b0 == [i \in DOMAIN others |->
                      [userId |-> others[i], owed |-> 0, owing |-> 0]]
             b1 == GroupPageExpenses(b0, me, GroupRecords(expenses, gid))
             b2 == GroupPageSettlements(b1, me, GroupRecords(settlements, gid))
         IN  [error |-> "none", type |-> "group",
              balances |-> [i \in DOMAIN b2 |->
                              [userId |-> b2[i].userId,
                               name |-> MemberName(b2[i].userId),
                               youAreOwed |-> b2[i].owed,
                               youOwe |-> b2[i].owing,
                               netBalance |-> b2[i].owed - b2[i].owing]]]

GroupPage(me, gid) ==
    IF gid \notin DOMAIN groups THEN [error |-> "Group not found"]
    ELSE IF ~IsMember(gid, me) THEN [error |-> "You are not a member of this group"]
    ELSE LET NotMe(uid) == uid # me
             others == SelectSeq(groups[gid], NotMe)
             b0 == [i \in DOMAIN others |->
                      [userId |-> others[i], owed |-> 0, owing |-> 0]]
             b1 == GroupPageExpenses(b0, me, GroupRecords(expenses, gid))
             b2 == GroupPageSettlements(b1, me, GroupRecords(settlements, gid))
         IN  [error |-> "none", type |-> "group",
              balances |-> [i \in DOMAIN b2 |->
                              [userId |-> b2[i].userId,
                               name |-> MemberName(b2[i].userId),
                               youAreOwed |-> b2[i].owed,
                               youOwe |-> b2[i].owing,
                               netBalance |-> b2[i].owed - b2[i].owing]]]

GetSettlementData(me, entityType, entityId) ==
    IF entityType = "user" THEN UserPage(me, entityId)
    ELSE IF entityType = "group" THEN GroupPage(me, entityId)
    ELSE [error |-> "Invalid entityType; expected 'user' or 'group'"]

(***************************************************************************)
(* Mutations.                                                              *)
(***************************************************************************)
\* createSettlement's validation: the message of the first check that throws.
CreateSettlementErrorNoAmountCheck(caller, amount, paidBy, receivedBy, gid) ==
    IF caller \notin DOMAIN users THEN "User not found"
    ELSE IF paidBy = receivedBy THEN "Payer and receiver cannot be the same user"
    ELSE IF caller # paidBy /\ caller # receivedBy
    THEN "You must be either the payer or the receiver"
    ELSE IF gid # NoGroup /\ gid \notin DOMAIN groups THEN "Group not found"
    ELSE IF gid # NoGroup /\ (~IsMember(gid, paidBy) \/ ~IsMember(gid, receivedBy))
    THEN "Both parties must be members of the group"
    ELSE "none"

\* The validation without the check that the caller is a party.
CreateSettlementErrorNoCallerCheck(caller, amount, paidBy, receivedBy, gid) ==
    IF caller \notin DOMAIN users THEN "User not found"
    ELSE IF amount <= 0 THEN "Amount must be positive"
    ELSE IF paidBy = receivedBy THEN "Payer and receiver cannot be the same user"
    ELSE IF gid # NoGroup /\ gid \notin DOMAIN groups THEN "Group not found"
    ELSE IF gid # NoGroup /\ (~IsMember(gid, paidBy) \/ ~IsMember(gid, receivedBy))
    THEN "Both parties must be members of the group"
    ELSE "none"

\* caller is the user the identity of the call stands for; getCurrentUser
\* throws "User not found" before any check when that user has no profile.
CreateSettlementError(caller, amount, paidBy, receivedBy, gid) ==
    IF caller \notin DOMAIN users THEN "User not found"
    ELSE IF amount <= 0 THEN "Amount must be positive"
    ELSE IF paidBy = receivedBy THEN "Payer and receiver cannot be the same user"
    ELSE IF caller # paidBy /\ caller # receivedBy
    THEN "You must be either the payer or the receiver"
    ELSE IF gid # NoGroup /\ gid \notin DOMAIN groups THEN "Group not found"
    ELSE IF gid # NoGroup /\ (~IsMember(gid, paidBy) \/ ~IsMember(gid, receivedBy))
    THEN "Both parties must be members of the group"
    ELSE "none"

CreateSettlement(caller, amount, paidBy, receivedBy, gid) ==
    LET err == CreateSettlementError(caller, amount, paidBy, receivedBy, gid) IN
    /\ err = "none" => Len(settlements) < MaxSettlements
    /\ lastError' = err
    /\ settlements' =
         IF err = "none"
         THEN Append(settlements,
                     [amount |-> amount, paidByUserId |-> paidBy,
                      receivedByUserId |-> receivedBy, groupId |-> gid,
                      createdBy |-> caller])
         ELSE settlements
    /\ UNCHANGED <<users, groups, groupDocs, expenses>>
    /\ UNCHANGED clientVars

\* An expense record enters the store (api.expenses.createExpense).
InsertExpense(payer, splits, gid) ==
    /\ Len(expenses) < MaxExpenses
    /\ expenses' = Append(expenses,
                          [paidByUserId |-> payer, splits |-> splits, groupId |-> gid])
    /\ lastError' = "none"
    /\ UNCHANGED <<users, groups, groupDocs, settlements>>

\* createExpense called directly, with no client state involved.
CreateExpense(payer, splits, gid) ==
    /\ InsertExpense(payer, splits, gid)
    /\ UNCHANGED clientVars

\* The profile document of a user is removed; the records and group
\* memberships that name the user stay.
DeleteUser(uid) ==
    /\ uid \in DOMAIN users
    /\ users' = [u \in DOMAIN users \ {uid} |-> users[u]]
    /\ lastError' = "none"
    /\ UNCHANGED <<groups, groupDocs, expenses, settlements>>
    /\ UNCHANGED clientVars

\* split-selector, type "equal": one split per participant, the payer's marked
\* paid (amount a multiple of the number of participants).
EqualSplits(participants, amount, paidByUserId) ==
    [i \in DOMAIN participants |->
        [userId |-> participants[i],
         amount |-> amount \div Len(participants),
         paid |-> participants[i] = paidByUserId]]

(***************************************************************************)
(* JS numbers with a fraction.  The amounts of the expense form are IEEE   *)
(* 754 doubles at or near hundredths.  A non-negative double v is written  *)
(* [k, d], meaning                                                         *)
(*     v = (k * M + d) * 2^-60,   M = 0x147AE147AE147B,                    *)
(* where 2 * M * 2^-60 is the double 0.01 (0x1.47ae147ae147bp-7).  So k    *)
(* counts half hundredths, exactly as in the decimal text, and d is what   *)
(* rounding to 53 bits has left over, in units of 2^-60.  M is needed only *)
(* by its low bits (M % 256 = 123) and by 100 * M = 2^59 + 12.  The        *)
(* operators below round to nearest, ties to even, as the hardware does;   *)
(* they cover k up to MaxHalves, where the binary exponent is a function   *)
(* of k alone.                                                             *)
(***************************************************************************)
MLow == 123
MaxHalves == 24

Float(k, d) == [k |-> k, d |-> d]
Zero == Float(0, 0)

\* Number of low bits of k * M + d that a 53-bit significand cannot hold.
Exponent(k) ==
    IF k <= 1 THEN 0 ELSE IF k <= 3 THEN 1 ELSE IF k <= 6 THEN 2
    ELSE IF k <= 12 THEN 3 ELSE 4

\* The double nearest to (k * M + d) * 2^-60, ties to the even significand.
RoundNearestEven(k, d) ==
    IF k = 0 THEN Float(0, d)
    ELSE LET s == Exponent(k)
             bits == (k * MLow + d) % (2 ^ (s + 1))
             low == bits % (2 ^ s)
             odd == bits \div (2 ^ s) = 1
             half == (2 ^ s) \div 2
             up == s > 0 /\ (low > half \/ (low = half /\ odd))
         IN Float(k, d - low + IF up THEN 2 ^ s ELSE 0)

\* parseFloat of the text of c hundredths ("0.03" for c = 3): the double
\* nearest to c / 100 = (2c * M - 24c / 100) * 2^-60.
ParseFloat(c) ==
    IF c = 0 THEN Zero
    ELSE LET k == 2 * c
             s == Exponent(k)
             low == (k * MLow) % (2 ^ s)
             x == 100 * low - 24 * c
             m == 100 * (2 ^ s)
             q == IF x >= 0 THEN x \div m ELSE -((-x + m - 1) \div m)
             rem == x - q * m
             odd == (((k * MLow - low) \div (2 ^ s)) + q) % 2 = 1
             up == 2 * rem > m \/ (2 * rem = m /\ odd)
         IN Float(k, -low + (q + IF up THEN 1 ELSE 0) * (2 ^ s))

\* a + b
FloatAdd(a, b) == RoundNearestEven(a.k + b.k, a.d + b.d)

\* a > b
FloatGreater(a, b) == a.k > b.k \/ (a.k = b.k /\ a.d > b.d)

\* Math.abs(a - b)
FloatAbsDiff(a, b) ==
    IF FloatGreater(b, a) THEN RoundNearestEven(b.k - a.k, b.d - a.d)
    ELSE RoundNearestEven(a.k - b.k, a.d - b.d)

\* a / 2, exact in binary.
FloatHalve(a) == Float(a.k \div 2, a.d \div 2)

\* const tolerance = 0.01
Tolerance == ParseFloat(1)

(***************************************************************************)
(* The expense form (type "individual", split type "exact") with its split *)
(* selector.  The participants are the current user and one other user.    *)
(***************************************************************************)
MaxCents == 2
MaxFormExpenses == 1                \* expenses the form gets on record
FormParticipants == <<1, 2>>       \* the current user first
NoText == -1                       \* the empty amount field
NoPayer == 0                       \* paidByUserId: "", the default value
AmountTexts == {NoText} \cup (0..MaxCents)
DescriptionTexts == {"", "Lunch"}
NoToast == [kind |-> "none", message |-> ""]
SplitMismatchToast ==
    [kind |-> "error",
     message |-> "Split amounts don't add up to the total. Please adjust your splits."]

\* parseFloat(amountValue) || 0: the prop `amount` of the split selector.
AmountProp(text) == IF text = NoText THEN Zero ELSE ParseFloat(text)

\* The effect of the split selector (it runs when the amount, the
\* participants or the payer change): one even share per participant, or the
\* splits as they were when there is no positive amount.
SelectorEffect(text, paidBy, oldSplits) ==
    IF AmountProp(text) = Zero THEN oldSplits
    ELSE [i \in DOMAIN FormParticipants |->
            [userId |-> FormParticipants[i],
             amount |-> FloatHalve(AmountProp(text)),
             paid |-> FormParticipants[i] = paidBy]]

\* splits.reduce((sum, split) => sum + split.amount, 0)
RECURSIVE TotalFrom(_, _, _)
TotalFrom(sum, splits, i) ==
    IF i > Len(splits) THEN sum
    ELSE TotalFrom(FloatAdd(sum, splits[i].amount), splits, i + 1)

TotalAmount(splits) == TotalFrom(Zero, splits, 1)

\* The split selector's total row: Math.abs(totalAmount - amount) < 0.01.
IsAmountValid(splits, text) ==
    FloatGreater(Tolerance, FloatAbsDiff(TotalAmount(splits), AmountProp(text)))

\* onSubmit's rejection with twice the tolerance.
SplitsDontAddUpTwiceTolerance(splits, text) ==
    FloatGreater(FloatAbsDiff(TotalAmount(splits), ParseFloat(text)), ParseFloat(2))

\* onSubmit's rejection: Math.abs(totalSplitAmount - amount) > tolerance.
SplitsDontAddUp(splits, text) ==
    FloatGreater(FloatAbsDiff(TotalAmount(splits), ParseFloat(text)), Tolerance)

\* The zod schema, field by field: the first message of the field, if any.
\* description: z.string().min(1, ...)
DescriptionErrors(description) ==
    IF description # "" THEN {} ELSE {"Description is required"}

\* amount: a text that parses to a number > 0.
AmountErrors(text) ==
    IF text # NoText /\ FloatGreater(ParseFloat(text), Zero) THEN {}
    ELSE IF text = NoText THEN {"Amount is required"}
    ELSE {"Amount must be a positive number"}

\* paidByUserId: z.string().min(1, ...)
PayerErrors(paidBy) == IF paidBy # NoPayer THEN {} ELSE {"Payer is required"}

\* The messages the resolver reports for the values of the form (category,
\* date, splitType and groupId always pass).
SchemaErrors(description, text, paidBy) ==
    DescriptionErrors(description) \cup AmountErrors(text) \cup PayerErrors(paidBy)

\* The messages a field can carry.
DescriptionMessages == {"Description is required"}
AmountMessages == {"Amount is required", "Amount must be a positive number"}
PayerMessages == {"Payer is required"}

\* react-hook-form, mode onSubmit and reValidateMode onChange (useForm is
\* given neither): once the form has been submitted, a change of a registered
\* field validates that field again and sets or clears its message.
Revalidated(errors, isSubmitted, messages, now) ==
    IF isSubmitted THEN (errors \ messages) \cup now ELSE errors

FormattedSplits(splits, paidBy) ==
    [i \in DOMAIN splits |->
        [userId |-> splits[i].userId, amount |-> splits[i].amount,
         paid |-> splits[i].userId = paidBy]]

\* The description field is edited.
TypeDescription(description) ==
    /\ description # form.description
    /\ form' = [form EXCEPT !.description = description,
                            !.errors = Revalidated(form.errors, form.isSubmitted,
                                                   DescriptionMessages,
                                                   DescriptionErrors(description))]
    /\ UNCHANGED <<users, groups, groupDocs, expenses, settlements, lastError,
                   toast, hook, calls>>

\* The amount field is edited.
TypeAmount(text) ==
    /\ text # form.amount
    /\ form' = [form EXCEPT !.amount = text,
                            !.splits = SelectorEffect(text, form.paidByUserId,
                                                      form.splits),
                            !.errors = Revalidated(form.errors, form.isSubmitted,
                                                   AmountMessages, AmountErrors(text))]
    /\ UNCHANGED <<users, groups, groupDocs, expenses, settlements, lastError,
                   toast, hook, calls>>

\* Another payer is chosen.
ChoosePayer(uid) ==
    /\ uid # form.paidByUserId
    /\ form' = [form EXCEPT !.paidByUserId = uid,
                            !.splits = SelectorEffect(form.amount, uid, form.splits),
                            !.errors = Revalidated(form.errors, form.isSubmitted,
                                                   PayerMessages, PayerErrors(uid))]
    /\ UNCHANGED <<users, groups, groupDocs, expenses, settlements, lastError,
                   toast, hook, calls>>

\* updateExactSplit(userId, newAmount), newAmount the text of c hundredths.
\* The splits are component state, not a field of the form: nothing is
\* validated.
UpdateExactSplit(userId, c) ==
    /\ form' = [form EXCEPT !.splits =
                  [i \in DOMAIN form.splits |->
                      IF form.splits[i].userId = userId
                      THEN [form.splits[i] EXCEPT !.amount = ParseFloat(c)]
                      ELSE form.splits[i]]]
    /\ form' # form
    /\ UNCHANGED <<users, groups, groupDocs, expenses, settlements, lastError,
                   toast, hook, calls>>

\* No createExpense call of the form is in flight.
NothingSent == <<>>

\* handleSubmit(onSubmit) up to the point where it returns to the event loop.
\* The submit button is disabled while a submission is in flight; the
\* fields and the shares stay editable (NextForm).  The resolver runs first; when it reports messages they are shown and the form
\* counts as submitted.  Otherwise the messages are cleared and onSubmit
\* runs: shares that do not add up show the toast and end the submission;
\* shares that do are sent with createExpense.mutate, which sets isLoading,
\* clears error and awaits the answer, the form still counting as it did.
Submit ==
    LET found == SchemaErrors(form.description, form.amount, form.paidByUserId) IN
    /\ form.sent = NothingSent
    /\ IF found # {}
       THEN /\ form' = [form EXCEPT !.errors = found, !.isSubmitted = TRUE]
            /\ form' # form
            /\ UNCHANGED <<toast, hook>>
       ELSE IF SplitsDontAddUp(form.splits, form.amount)
       THEN /\ toast' = SplitMismatchToast
            /\ form' = [form EXCEPT !.errors = {}, !.isSubmitted = TRUE]
            /\ UNCHANGED hook
       ELSE /\ hook' = [hook EXCEPT !.isLoading = TRUE, !.error = Null]
            /\ form' = [form EXCEPT
                          !.errors = {},
                          !.sent = <<[amount |-> form.amount,
                                      paidByUserId |-> form.paidByUserId,
                                      splits |-> FormattedSplits(form.splits,
                                                                 form.paidByUserId)]>>]
            /\ UNCHANGED toast
    /\ UNCHANGED <<users, groups, groupDocs, expenses, settlements, lastError, calls>>

\* The mutation in flight resolves: the expense that was sent is on record,
\* mutate stores the response and clears isLoading, and onSubmit goes on with
\* the success toast and reset(), which restores the default values of the
\* fields and clears the messages; the splits are component state and stay
\* as they are by now.  handleSubmit then marks the form submitted.
SubmitResolved ==
    /\ form.sent # NothingSent
    /\ InsertExpense(form.sent[1].paidByUserId, form.sent[1].splits, NoGroup)
    /\ hook' = [hook EXCEPT !.data = "expense", !.isLoading = FALSE]
    /\ toast' = [kind |-> "success", message |-> "Expense created successfully!"]
    /\ form' = [form EXCEPT !.description = "", !.amount = NoText,
                            !.paidByUserId = NoPayer, !.errors = {},
                            !.isSubmitted = TRUE, !.sent = NothingSent]
    /\ UNCHANGED calls

\* The mutation in flight rejects: mutate stores the error, shows it, clears
\* isLoading and re-throws; onSubmit catches it and shows its own toast; the
\* fields keep what they hold by now.  handleSubmit then marks the form
\* submitted.
SubmitRejected ==
    /\ form.sent # NothingSent
    /\ hook' = [hook EXCEPT !.isLoading = FALSE, !.error = "Server Error"]
    /\ toast' = [kind |-> "error",
                 message |-> "Failed to create expense: Server Error"]
    /\ lastError' = "Server Error"
    /\ form' = [form EXCEPT !.isSubmitted = TRUE, !.sent = NothingSent]
    /\ UNCHANGED <<users, groups, groupDocs, expenses, settlements, calls>>

(***************************************************************************)
(* users.getCurrentUser and contacts.createGroup.  A caller's identity is   *)
(* NoIdentity (not signed in) or [tokenIdentifier, name]; a group name is  *)
(* a sequence of characters.                                               *)
(***************************************************************************)
NoIdentity == [tokenIdentifier |-> 0, name |-> "none"]
MaxNewGroups == 1
MaxNameLen == 2
MaxMembersArg == 3
NameChars == {" ", "a"}
Whitespace == {" "}

\* getCurrentUser: the first profile stored for the caller's token.
GetCurrentUser(identity) ==
    IF identity = NoIdentity THEN [error |-> "Not authenticated", id |-> 0]
    ELSE LET mine == {u \in DOMAIN users :
                         users[u].tokenIdentifier = identity.tokenIdentifier}
         IN  IF mine = {} THEN [error |-> "User not found", id |-> 0]
             ELSE [error |-> "none",
                   id |-> CHOOSE u \in mine : \A w \in mine : u <= w]

\* String.prototype.trim
RECURSIVE TrimStart(_)
TrimStart(name) ==
    IF name # <<>> /\ Head(name) \in Whitespace THEN TrimStart(Tail(name)) ELSE name

RECURSIVE TrimEnd(_)
TrimEnd(name) ==
    IF name # <<>> /\ name[Len(name)] \in Whitespace
    THEN TrimEnd(SubSeq(name, 1, Len(name) - 1))
    ELSE name

\* trim that strips nothing.
TrimNothing(name) == name

Trim(name) == TrimEnd(TrimStart(name))

\* new Set(ids), spread in insertion order: the first occurrence of each id.
RECURSIVE UniqueFrom(_, _, _)
UniqueFrom(seen, ids, i) ==
    IF i > Len(ids) THEN seen
    ELSE UniqueFrom(IF ids[i] \in Range(seen) THEN seen ELSE Append(seen, ids[i]),
                    ids, i + 1)

\* The member list without the collapse of repeated ids.
UniqueMembersRepeated(members, creator) ==
    IF creator \in Range(members) THEN members ELSE Append(members, creator)

\* uniqueMembers = new Set(args.members); uniqueMembers.add(currentUser._id)
UniqueMembers(members, creator) == UniqueFrom(<<>>, Append(members, creator), 1)

\* The first member id, in set order, that resolves to no user; 0 when all do.
FirstMissing(ids) ==
    LET i == Find([k \in DOMAIN ids |-> ids[k] \notin DOMAIN users])
    IN  IF i = 0 THEN 0 ELSE ids[i]

\* The id of the next document inserted into "groups": above every id given
\* so far.
NextGroupId ==
    IF DOMAIN groups = {} THEN 1
    ELSE (CHOOSE g \in DOMAIN groups : \A h \in DOMAIN groups : h <= g) + 1

\* The outcome of createGroup: the message thrown or "none", the id returned
\* and the groups table afterwards.
CreateGroupResult(identity, name, members) ==
    LET me == GetCurrentUser(identity)
        ids == UniqueMembers(members, me.id)
        Outcome(error, id, newGroups, newDocs) ==
            [error |-> error, returned |-> id, groups |-> newGroups,
             groupDocs |-> newDocs]
    IN  IF me.error # "none" THEN Outcome(me.error, 0, groups, groupDocs)
        ELSE IF Trim(name) = <<>>
        THEN Outcome("Group name cannot be empty", 0, groups, groupDocs)
        ELSE IF FirstMissing(ids) # 0
        THEN Outcome("User with ID " \o ToString(FirstMissing(ids)) \o " not found",
                     0, groups, groupDocs)
        ELSE Outcome("none", NextGroupId,
                     groups @@ (NextGroupId :> ids),
                     groupDocs @@
                       (NextGroupId :>
                          [name |-> Trim(name), createdBy |-> me.id,
                           roles |-> [i \in DOMAIN ids |->
                                        IF ids[i] = me.id THEN "admin" ELSE "member"]]))

CreateGroup(identity, name, members) ==
    LET result == CreateGroupResult(identity, name, members) IN
    /\ result.error = "none" => Cardinality(DOMAIN groups)
                                  < Cardinality(DOMAIN SeedGroups) + MaxNewGroups
    /\ groups' = result.groups
    /\ groupDocs' = result.groupDocs
    /\ lastError' = result.error
    /\ UNCHANGED <<users, expenses, settlements>>
    /\ UNCHANGED clientVars

(***************************************************************************)
(* users.store: the profile of the caller is created on the first call and *)
(* its name brought up to date on later calls.                             *)
(***************************************************************************)
MaxNewUsers == 2

\* The by_token index read that finds nothing.
ByTokenNone(token) == {}

\* ctx.db.query("users").withIndex("by_token", q => q.eq(...)): the ids of the
\* profiles stored for the token.
ByToken(token) == {u \in DOMAIN users : users[u].tokenIdentifier = token}

NextUserId == (CHOOSE u \in DOMAIN users : \A w \in DOMAIN users : w <= u) + 1

\* The outcome of store: the message thrown or "none", the id returned and
\* the users table afterwards.
StoreResult(identity) ==
    LET found == ByToken(identity.tokenIdentifier)
        user == CHOOSE u \in found : TRUE
        Outcome(error, id, newUsers) ==
            [error |-> error, returned |-> id, users |-> newUsers]
    IN  IF identity = NoIdentity
        THEN Outcome("Called storeUser without authentication present", 0, users)
        ELSE IF Cardinality(found) > 1
        THEN Outcome("unique() query returned more than one result", 0, users)
        ELSE IF found # {}
        THEN Outcome("none", user,
                     IF users[user].name # identity.name
                     THEN [users EXCEPT ![user].name = identity.name]
                     ELSE users)
        ELSE Outcome("none", NextUserId,
                     users @@
                       (NextUserId :>
                          [tokenIdentifier |-> identity.tokenIdentifier,
                           name |-> IF identity.name = Undefined THEN "Anonymous"
                                    ELSE identity.name]))

Store(identity) ==
    LET result == StoreResult(identity) IN
    /\ DOMAIN result.users # DOMAIN users =>
          Cardinality(DOMAIN users) < NumUsers + MaxNewUsers
    /\ users' = result.users
    /\ lastError' = result.error
    /\ UNCHANGED <<groups, groupDocs, expenses, settlements>>
    /\ UNCHANGED clientVars

(***************************************************************************)
(* seed.seedDatabase: one mutation that stores three groups, five 1:1      *)
(* expenses, eight group expenses and three settlements for the first      *)
(* three users of the users table.  The seed's amounts have two decimals   *)
(* and are held as counts of hundredths (625.0 as 62500, 3166.67 as        *)
(* 316667): sums of them are exact here, while the JS sums of the views    *)
(* carry the rounding residue of doubles.                                  *)
(***************************************************************************)
\* ctx.db.query("users").collect()[n - 1]: the n-th profile in creation order.
RECURSIVE NthUser(_, _)
NthUser(ids, n) ==
    LET first == CHOOSE u \in ids : \A w \in ids : u <= w
    IN  IF n = 1 THEN first ELSE NthUser(ids \ {first}, n - 1)

SeedSplit(userId, amount, paid) == [userId |-> userId, amount |-> amount, paid |-> paid]
SeedExpense(paidBy, splits, gid) ==
    [paidByUserId |-> paidBy, splits |-> splits, groupId |-> gid]

\* createGroups: the member lists and the other fields of the three documents.
SeedGroupMembers(u1, u2, u3) == <<<<u1, u2, u3>>, <<u2, u3>>, <<u3, u1, u2>>>>

\* createOneOnOneExpenses: expenseDatas.
SeedOneOnOneExpenses(u1, u2, u3) ==
    <<SeedExpense(u1, <<SeedSplit(u1, 62500, TRUE), SeedSplit(u2, 62500, FALSE)>>,
                  NoGroup),
      SeedExpense(u2, <<SeedSplit(u1, 22500, FALSE), SeedSplit(u2, 22500, TRUE)>>,
                  NoGroup),
      SeedExpense(u3, <<SeedSplit(u2, 25000, FALSE), SeedSplit(u3, 25000, TRUE)>>,
                  NoGroup),
      SeedExpense(u1, <<SeedSplit(u1, 131285, TRUE), SeedSplit(u3, 56265, FALSE)>>,
                  NoGroup),
      SeedExpense(u2, <<SeedSplit(u2, 60000, TRUE), SeedSplit(u3, 60000, FALSE)>>,
                  NoGroup)>>

\* createGroupExpenses: weekendTripExpenses, officeExpenses, projectExpenses.
SeedGroupExpenses(u1, u2, u3, g1, g2, g3) ==
    <<SeedExpense(u1, <<SeedSplit(u1, 316667, TRUE), SeedSplit(u2, 316667, FALSE),
                        SeedSplit(u3, 316666, FALSE)>>, g1),
      SeedExpense(u2, <<SeedSplit(u1, 81692, FALSE), SeedSplit(u2, 81692, TRUE),
                        SeedSplit(u3, 81691, FALSE)>>, g1),
      SeedExpense(u3, <<SeedSplit(u1, 150000, FALSE), SeedSplit(u2, 150000, FALSE),
                        SeedSplit(u3, 150000, TRUE)>>, g1),
      SeedExpense(u2, <<SeedSplit(u2, 42500, TRUE), SeedSplit(u3, 42500, FALSE)>>, g2),
      SeedExpense(u3, <<SeedSplit(u2, 62520, FALSE), SeedSplit(u3, 62520, TRUE)>>, g2),
      SeedExpense(u3, <<SeedSplit(u1, 40000, FALSE), SeedSplit(u2, 40000, FALSE),
                        SeedSplit(u3, 40000, TRUE)>>, g3),
      SeedExpense(u1, <<SeedSplit(u1, 120000, TRUE), SeedSplit(u2, 120000, FALSE),
                        SeedSplit(u3, 120000, FALSE)>>, g3),
      SeedExpense(u2, <<SeedSplit(u1, 160020, FALSE), SeedSplit(u2, 160020, TRUE),
                        SeedSplit(u3, 160020, FALSE)>>, g3)>>

\* createSettlements: settlementDatas.
SeedSettlements(u1, u2, u3, g1, g2) ==
    <<[amount |-> 22500, paidByUserId |-> u1, receivedByUserId |-> u2,
       groupId |-> NoGroup, createdBy |-> u1],
      [amount |-> 316667, paidByUserId |-> u2, receivedByUserId |-> u1,
       groupId |-> g1, createdBy |-> u2],
      [amount |-> 42500, paidByUserId |-> u3, receivedByUserId |-> u2,
       groupId |-> g2, createdBy |-> u3]>>

\* seedDatabase: nothing is stored when an expense is on record or fewer than
\* three users are; otherwise every record of the seed is appended.
SeedDatabase ==
    IF expenses # <<>> \/ Cardinality(DOMAIN users) < 3
    THEN /\ lastError' = "none"
         /\ UNCHANGED <<users, groups, groupDocs, expenses, settlements>>
         /\ UNCHANGED clientVars
    ELSE LET u1 == NthUser(DOMAIN users, 1)
             u2 == NthUser(DOMAIN users, 2)
             u3 == NthUser(DOMAIN users, 3)
             g1 == NextGroupId
             g2 == NextGroupId + 1
             g3 == NextGroupId + 2
             members == SeedGroupMembers(u1, u2, u3)
             Doc(i) == [name |-> SeedGroupNames[i],
                        createdBy |-> members[i][1],
                        roles |-> [k \in DOMAIN members[i] |->
                                     IF k = 1 THEN "admin" ELSE "member"]]
         IN  /\ groups' = groups @@ (g1 :> members[1]) @@ (g2 :> members[2])
                                 @@ (g3 :> members[3])
             /\ groupDocs' = groupDocs @@ (g1 :> Doc(1)) @@ (g2 :> Doc(2))
                                       @@ (g3 :> Doc(3))
             /\ expenses' = SeedOneOnOneExpenses(u1, u2, u3)
                            \o SeedGroupExpenses(u1, u2, u3, g1, g2, g3)
             /\ settlements' = settlements \o SeedSettlements(u1, u2, u3, g1, g2)
             /\ lastError' = "none"
             /\ UNCHANGED users
             /\ UNCHANGED clientVars

(***************************************************************************)
(* useConvexMutation: mutate runs up to its await in one step and from the *)
(* settling of the mutation to its end in another; calls may overlap.      *)
(***************************************************************************)
MaxCalls == 4

\* What the mutation of the c-th call resolves with, or rejects with.
ResponseOf(c) == "response " \o ToString(c)
ErrorOf(c) == "error " \o ToString(c)

\* mutate(...args) up to `await mutationFn(...args)`.
MutateCall ==
    /\ Len(calls) < MaxCalls
    /\ hook' = [hook EXCEPT !.isLoading = TRUE, !.error = Null]
    /\ calls' = Append(calls, [status |-> "pending", outcome |-> Undefined])
    /\ UNCHANGED <<users, groups, groupDocs, expenses, settlements, lastError,
                   form, toast>>

\* The mutation of call c resolves: setData, return, finally.
MutateResolve(c) ==
    /\ calls[c].status = "pending"
    /\ hook' = [hook EXCEPT !.data = ResponseOf(c), !.isLoading = FALSE]
    /\ calls' = [calls EXCEPT ![c] = [status |-> "resolved",
                                      outcome |-> ResponseOf(c)]]
    /\ UNCHANGED <<users, groups, groupDocs, expenses, settlements, lastError,
                   form, toast>>

\* The mutation of call c rejects: setError, toast, throw, finally.
MutateReject(c) ==
    /\ calls[c].status = "pending"
    /\ hook' = [hook EXCEPT !.error = ErrorOf(c), !.isLoading = FALSE]
    /\ toast' = [kind |-> "error", message |-> ErrorOf(c)]
    /\ calls' = [calls EXCEPT ![c] = [status |-> "rejected",
                                      outcome |-> ErrorOf(c)]]
    /\ UNCHANGED <<users, groups, groupDocs, expenses, settlements, lastError,
                   form>>

(***************************************************************************)
(* Inputs.                                                                 *)
(***************************************************************************)
SplitLists(us, maxLen) ==
    UNION {[1..k -> [userId : us, amount : Amounts, paid : BOOLEAN]] : k \in 1..maxLen}

\* The profiles and the group documents present at the start.
SeedUsers == [u \in UserIds |-> [tokenIdentifier |-> u, name |-> ToString(u)]]
\* seed.js createGroups, groupDatas: name, createdBy and members[i].role of
\* each document.
SeedGroupDocs ==
    [g \in DOMAIN SeedGroups |->
        [name |-> SeedGroupNames[g],
         createdBy |-> SeedGroups[g][1],
         roles |-> [i \in DOMAIN SeedGroups[g] |-> IF i = 1 THEN "admin" ELSE "member"]]]

\* The store the specifications start from: three users have signed in
\* (users.store) and the three groups of the seed exist, each as
\* contacts.createGroup stores it for its creator and members; no expense or
\* settlement is on record, and the client is freshly mounted.
Init ==
    /\ users = SeedUsers
    /\ groups = SeedGroups
    /\ groupDocs = SeedGroupDocs
    /\ expenses = <<>>
    /\ settlements = <<>>
    /\ lastError = "none"
    /\ form = [description |-> "", amount |-> NoText, paidByUserId |-> NoPayer,
               splits |-> <<>>, errors |-> {}, isSubmitted |-> FALSE,
               sent |-> NothingSent]
    /\ toast = NoToast
    /\ hook = [data |-> Undefined, isLoading |-> FALSE, error |-> Null]
    /\ calls = <<>>

\* The store before any group exists: the users have signed in, nothing else
\* is on record.
InitUsersOnly ==
    /\ users = SeedUsers
    /\ groups = <<>>
    /\ groupDocs = <<>>
    /\ expenses = <<>>
    /\ settlements = <<>>
    /\ lastError = "none"
    /\ form = [description |-> "", amount |-> NoText, paidByUserId |-> NoPayer,
               splits |-> <<>>, errors |-> {}, isSubmitted |-> FALSE,
               sent |-> NothingSent]
    /\ toast = NoToast
    /\ hook = [data |-> Undefined, isLoading |-> FALSE, error |-> Null]
    /\ calls = <<>>

\* Records of the three-member seed group: expenses with one outstanding split,
\* expenses split equally among all members, and settlements between members.
NextGroup ==
    \/ \E payer \in Range(SeedGroups[1]), debtor \in Range(SeedGroups[1]), amt \in Amounts :
          /\ debtor # payer
          /\ CreateExpense(payer, <<[userId |-> debtor, amount |-> amt, paid |-> FALSE]>>, 1)
    \/ \E payer \in Range(SeedGroups[1]) :
          CreateExpense(payer, EqualSplits(SeedGroups[1], 300, payer), 1)
    \/ \E p \in Range(SeedGroups[1]), r \in Range(SeedGroups[1]), amt \in Amounts :
          p # r /\ CreateSettlement(p, amt, p, r, 1)

SpecGroup == Init /\ [][NextGroup]_vars

\* One-to-one split lists: one outstanding share of 100, or the same user
\* listed twice (the first listing paid or not).
PairSplitLists(payer) ==
    {<<[userId |-> d, amount |-> 100, paid |-> FALSE]>> : d \in UserIds \ {payer}}
    \cup {<<[userId |-> d, amount |-> 100, paid |-> firstPaid],
            [userId |-> d, amount |-> 100, paid |-> FALSE]>> :
              d \in UserIds \ {payer}, firstPaid \in BOOLEAN}

\* Records outside any group among the three users: the split lists above, an
\* expense of 1000 split equally between the payer and one other user, and
\* settlements.
NextPair ==
    \/ \E payer \in UserIds : \E splits \in PairSplitLists(payer) :
          CreateExpense(payer, splits, NoGroup)
    \/ \E payer \in UserIds, other \in UserIds :
          /\ other # payer
          /\ CreateExpense(payer, EqualSplits(<<payer, other>>, 1000, payer), NoGroup)
    \/ \E p \in UserIds, r \in UserIds, amt \in Amounts :
          p # r /\ CreateSettlement(p, amt, p, r, NoGroup)

SpecPair == Init /\ [][NextPair]_vars

\* A single expense of the three-member seed group with any split list.
NextShare ==
    \E payer \in Range(SeedGroups[1]) :
      \E splits \in SplitLists(Range(SeedGroups[1]), MaxSplits) :
          /\ expenses = <<>>
          /\ CreateExpense(payer, splits, 1)

SpecShare == Init /\ [][NextShare]_vars

\* Every call of createSettlement, valid or not, by any caller.
NextSettle ==
    \E caller \in UserIds, amt \in AmountArgs, p \in UserIds, r \in UserIds,
       gid \in GroupIdArgs :
        CreateSettlement(caller, amt, p, r, gid)

SpecSettle == Init /\ [][NextSettle]_vars

\* Records in both scopes: expenses with one outstanding split of 100 and
\* settlements, outside any group or in the three-member seed group.
NextMixed ==
    \/ \E payer \in UserIds, debtor \in UserIds, gid \in {NoGroup, 1} :
          /\ debtor # payer
          /\ gid # NoGroup => {payer, debtor} \subseteq Range(SeedGroups[gid])
          /\ CreateExpense(payer, <<[userId |-> debtor, amount |-> 100, paid |-> FALSE]>>,
                           gid)
    \/ \E p \in UserIds, r \in UserIds, amt \in Amounts, gid \in {NoGroup, 1} :
          /\ p # r
          /\ Len(settlements) < MaxMixedSettlements
          /\ CreateSettlement(p, amt, p, r, gid)

SpecMixed == Init /\ [][NextMixed]_vars

\* Records in every scope: expenses with one outstanding split of 100 and
\* settlements, outside any group or in one of two seed groups that share the
\* members 2 and 3; the third seed group stays without records.
ScopeGroups == {1, 2}
NextScope ==
    \/ \E payer \in UserIds, debtor \in UserIds, gid \in {NoGroup} \cup ScopeGroups :
          /\ debtor # payer
          /\ gid # NoGroup => {payer, debtor} \subseteq Range(SeedGroups[gid])
          /\ CreateExpense(payer, <<[userId |-> debtor, amount |-> 100, paid |-> FALSE]>>,
                           gid)
    \/ \E p \in UserIds, r \in UserIds, amt \in Amounts,
          gid \in {NoGroup} \cup ScopeGroups :
          /\ p # r
          /\ Len(settlements) < MaxMixedSettlements
          /\ CreateSettlement(p, amt, p, r, gid)

SpecScope == Init /\ [][NextScope]_vars

\* Records in every scope, and profiles that disappear.
NextProfile ==
    \/ \E payer \in UserIds, debtor \in UserIds, gid \in {NoGroup} \cup DOMAIN SeedGroups :
          /\ debtor # payer
          /\ gid # NoGroup => {payer, debtor} \subseteq Range(SeedGroups[gid])
          /\ CreateExpense(payer, <<[userId |-> debtor, amount |-> 100, paid |-> FALSE]>>,
                           gid)
    \/ \E p \in UserIds, r \in UserIds, amt \in Amounts,
          gid \in {NoGroup} \cup DOMAIN SeedGroups :
          /\ p # r
          /\ Len(settlements) < MaxMixedSettlements
          /\ CreateSettlement(p, amt, p, r, gid)
    \/ \E uid \in UserIds : DeleteUser(uid)

SpecProfile == Init /\ [][NextProfile]_vars

\* Expenses with two outstanding splits, one for each user other than the
\* payer in either order, and settlements, outside any group or in the
\* three-member seed group.
NextLists ==
    \/ \E payer \in UserIds, first \in UserIds, second \in UserIds,
          a1 \in Amounts, a2 \in Amounts, gid \in {NoGroup, 1} :
          /\ Cardinality({payer, first, second}) = 3
          /\ gid # NoGroup => {payer, first, second} \subseteq Range(SeedGroups[gid])
          /\ CreateExpense(payer, <<[userId |-> first, amount |-> a1, paid |-> FALSE],
                                    [userId |-> second, amount |-> a2, paid |-> FALSE]>>,
                           gid)
    \/ \E p \in UserIds, r \in UserIds, amt \in Amounts, gid \in {NoGroup, 1} :
          /\ p # r
          /\ Len(settlements) < MaxMixedSettlements
          /\ CreateSettlement(p, amt, p, r, gid)

SpecLists == Init /\ [][NextLists]_vars

\* Records stored in every order: expenses with one outstanding split of 100
\* and settlements of either amount, outside any group or in the three-member
\* seed group.
NextOrder ==
    \/ \E payer \in UserIds, debtor \in UserIds, gid \in {NoGroup, 1} :
          /\ debtor # payer
          /\ gid # NoGroup => {payer, debtor} \subseteq Range(SeedGroups[gid])
          /\ CreateExpense(payer, <<[userId |-> debtor, amount |-> 100, paid |-> FALSE]>>,
                           gid)
    \/ \E p \in UserIds, r \in UserIds, amt \in Amounts, gid \in {NoGroup, 1} :
          p # r /\ CreateSettlement(p, amt, p, r, gid)

SpecOrder == Init /\ [][NextOrder]_vars

\* The expense form in use: the description, the amount and the payer are
\* edited and shares are typed, at rest and while a submission is in flight
\* alike (only the submit button is disabled meanwhile); the form is
\* submitted; the mutation in flight resolves or rejects.  The records grow
\* without limit in the program: here the form gets MaxFormExpenses expenses
\* on record, and a submission sent after that is answered by a rejection.
NextForm ==
    \/ \E description \in DescriptionTexts : TypeDescription(description)
    \/ \E text \in AmountTexts : TypeAmount(text)
    \/ \E uid \in Range(FormParticipants) : ChoosePayer(uid)
    \/ \E uid \in Range(FormParticipants), c \in 0..MaxCents : UpdateExactSplit(uid, c)
    \/ Submit
    \/ Len(expenses) < MaxFormExpenses /\ SubmitResolved
    \/ SubmitRejected

SpecForm == Init /\ [][NextForm]_vars

\* The callers of the server: nobody, the three users, and a signed-in
\* caller with no profile.
Identities ==
    {NoIdentity}
    \cup {[tokenIdentifier |-> t, name |-> ToString(t)] : t \in 1..(NumUsers + 1)}

GroupNames == UNION {[1..n -> NameChars] : n \in 0..MaxNameLen}
MemberLists == UNION {[1..n -> 1..(NumUsers + 1)] : n \in 0..MaxMembersArg}

\* Every call of createGroup, valid or not, by any caller.
NextCreateGroup ==
    \E identity \in Identities, name \in GroupNames, members \in MemberLists :
        CreateGroup(identity, name, members)

SpecCreateGroup == Init /\ [][NextCreateGroup]_vars

\* The identities users.store is called with: nobody, or a token, known or
\* new, with the name the identity provider gives (possibly none).
StoreNames == {"Ann", "Bob", "", Undefined}
StoreIdentities ==
    {NoIdentity}
    \cup {[tokenIdentifier |-> t, name |-> n] :
            t \in 1..(NumUsers + MaxNewUsers), n \in StoreNames}

NextStore == \E identity \in StoreIdentities : Store(identity)

SpecStore == Init /\ [][NextStore]_vars

\* Calls of mutate that start and settle in any interleaving.
NextMutate ==
    \/ MutateCall
    \/ \E c \in DOMAIN calls : MutateResolve(c)
    \/ \E c \in DOMAIN calls : MutateReject(c)

SpecMutate == Init /\ [][NextMutate]_vars

\* The seed run on a store of users: before it 1:1 records may be created and
\* profiles may disappear, so that the seed is skipped, or stores its records
\* for the first three users.  Amounts count hundredths.
NextSeed ==
    \/ SeedDatabase
    \/ \E payer \in UserIds, debtor \in UserIds :
          /\ debtor # payer
          /\ CreateExpense(payer, <<[userId |-> debtor, amount |-> 100, paid |-> FALSE]>>,
                           NoGroup)
    \/ \E p \in UserIds, r \in UserIds, amt \in Amounts :
          /\ p # r
          /\ CreateSettlement(p, amt, p, r, NoGroup)
    \/ \E uid \in UserIds : DeleteUser(uid)

SpecSeed == InitUsersOnly /\ [][NextSeed]_vars

(***************************************************************************)
(* Properties of the group ledger.                                         *)
(***************************************************************************)
MemberPairs(gid) ==
    {p \in Range(groups[gid]) \X Range(groups[gid]) : p[1] # p[2]}

Netted(gid) == NetLedger(RawGroupLedger(gid).ledger, groups[gid])


\* C1: after the netting pass of getGroupExpenses every ledger cell is
\* non-negative, ledger[a][b] > 0 implies ledger[b][a] = 0, and no member is in
\* both the owes list and the owedBy list of another member.
C1_NettingAntisymmetry ==
    \A gid \in DOMAIN groups : \A caller \in Range(groups[gid]) :
        LET view == GetGroupExpenses(caller, gid) IN
        /\ view.error = "none"
        /\ \A p \in MemberPairs(gid) :
              /\ view.ledger[p[1]][p[2]] >= 0
              /\ view.ledger[p[1]][p[2]] > 0 => view.ledger[p[2]][p[1]] = 0
        /\ \A i \in DOMAIN view.balances : \A other \in Range(groups[gid]) :
              ~(/\ \E j \in DOMAIN view.balances[i].owes :
                      view.balances[i].owes[j].to = other
                /\ \E j \in DOMAIN view.balances[i].owedBy :
                      view.balances[i].owedBy[j].from = other)

\* A settlement larger than the standing debt left a negative raw cell, and the
\* netted ledger shows the receiver owing the payer.
C1_Witness ==
    \E p \in MemberPairs(1) :
        /\ RawGroupLedger(1).ledger[p[1]][p[2]] < 0
        /\ RawGroupLedger(1).ledger[p[2]][p[1]] > 0
        /\ Netted(1)[p[2]][p[1]] > 0
        /\ Netted(1)[p[1]][p[2]] = 0

\* C2 as stated: after netting exactly one of ledger[a][b], ledger[b][a] is
\* non-zero for every pair, and it equals |raw[a][b] - raw[b][a]|.
C2_ExactlyOneNonZero ==
    \A gid \in DOMAIN groups : \A p \in MemberPairs(gid) :
        LET raw == RawGroupLedger(gid).ledger
            net == Netted(gid)
            d == Abs(raw[p[1]][p[2]] - raw[p[2]][p[1]])
        IN  \/ net[p[1]][p[2]] # 0 /\ net[p[2]][p[1]] = 0 /\ net[p[1]][p[2]] = d
            \/ net[p[2]][p[1]] # 0 /\ net[p[1]][p[2]] = 0 /\ net[p[2]][p[1]] = d

\* C2 amended: after netting, for every pair (a, b) with diff = raw[a][b] -
\* raw[b][a]: diff > 0 gives ledger[a][b] = diff and ledger[b][a] = 0; diff < 0
\* gives ledger[b][a] = -diff and ledger[a][b] = 0; diff = 0 gives both cells 0.
C2_NetOfPair ==
    \A gid \in DOMAIN groups : \A p \in MemberPairs(gid) :
        LET raw == RawGroupLedger(gid).ledger
            net == Netted(gid)
            diff == raw[p[1]][p[2]] - raw[p[2]][p[1]]
        IN  /\ diff > 0 => net[p[1]][p[2]] = diff /\ net[p[2]][p[1]] = 0
            /\ diff < 0 => net[p[2]][p[1]] = -diff /\ net[p[1]][p[2]] = 0
            /\ diff = 0 => net[p[1]][p[2]] = 0 /\ net[p[2]][p[1]] = 0

\* One pair owes each other the same non-zero amount and nets to nothing, while
\* another pair nets to a debt.
C2_Witness ==
    /\ \E p \in MemberPairs(1) :
          /\ RawGroupLedger(1).ledger[p[1]][p[2]] # 0
          /\ RawGroupLedger(1).ledger[p[1]][p[2]] = RawGroupLedger(1).ledger[p[2]][p[1]]
          /\ Netted(1)[p[1]][p[2]] = 0 /\ Netted(1)[p[2]][p[1]] = 0
    /\ \E p \in MemberPairs(1) :
          /\ RawGroupLedger(1).ledger[p[1]][p[2]] # RawGroupLedger(1).ledger[p[2]][p[1]]
          /\ Netted(1)[p[1]][p[2]] > 0

\* C3: the netting pass is idempotent: applied to the ledger it produced, it
\* changes no cell.
C3_NettingIdempotent ==
    \A gid \in DOMAIN groups :
        NetLedger(Netted(gid), groups[gid]) = Netted(gid)

\* The raw ledger has a negative cell and the first pass changed it.
C3_Witness ==
    /\ \E p \in MemberPairs(1) : RawGroupLedger(1).ledger[p[1]][p[2]] < 0
    /\ Netted(1) # RawGroupLedger(1).ledger
    /\ NetLedger(Netted(1), groups[1]) = Netted(1)

(***************************************************************************)
(* Properties of the balance views.                                        *)
(***************************************************************************)
\* The amount listed for uid in a dashboard list, 0 when uid is not listed.
ListedAmount(list, uid) ==
    LET i == Find([k \in DOMAIN list |-> list[k].userId = uid])
    IN  IF i = 0 THEN 0 ELSE list[i].amount

\* C4 as stated: no outstanding amount of any balance view is negative: youOwe
\* and youAreOwed of the dashboard, of the user page and of every entry of the
\* group page, and every amount of the dashboard and group owes / owedBy lists.
C4_NoNegativeOutstanding ==
    /\ \A user \in UserIds :
          LET d == GetUserBalances(user) IN
          /\ d.youOwe >= 0
          /\ d.youAreOwed >= 0
          /\ \A i \in DOMAIN d.oweDetails.youOwe : d.oweDetails.youOwe[i].amount >= 0
          /\ \A i \in DOMAIN d.oweDetails.youAreOwedBy :
                d.oweDetails.youAreOwedBy[i].amount >= 0
    /\ \A me \in UserIds : \A other \in UserIds \ {me} :
          LET v == GetSettlementData(me, "user", other) IN
          v.youOwe >= 0 /\ v.youAreOwed >= 0
    /\ \A gid \in DOMAIN groups : \A me \in Range(groups[gid]) :
          LET v == GetSettlementData(me, "group", gid)
              g == GetGroupExpenses(me, gid)
          IN  /\ \A i \in DOMAIN v.balances :
                    v.balances[i].youOwe >= 0 /\ v.balances[i].youAreOwed >= 0
              /\ \A i \in DOMAIN g.balances :
                    /\ \A j \in DOMAIN g.balances[i].owes : g.balances[i].owes[j].amount >= 0
                    /\ \A j \in DOMAIN g.balances[i].owedBy :
                          g.balances[i].owedBy[j].amount >= 0

SignOk(net, owed, owing) ==
    /\ net = owed - owing
    /\ (net > 0) = (owed > owing)
    /\ (net < 0) = (owing > owed)

\* C5: netBalance = youAreOwed - youOwe in the user page and in every entry of
\* the group page, totalBalance = youAreOwed - youOwe on the dashboard; the value
\* is positive exactly when what the counterpart owes exceeds what the subject
\* owes, negative exactly in the opposite case.
C5_SignConvention ==
    /\ \A me \in UserIds : \A other \in UserIds \ {me} :
          LET v == GetSettlementData(me, "user", other) IN
          SignOk(v.netBalance, v.youAreOwed, v.youOwe)
    /\ \A gid \in DOMAIN groups : \A me \in Range(groups[gid]) :
          LET v == GetSettlementData(me, "group", gid) IN
          \A i \in DOMAIN v.balances :
             SignOk(v.balances[i].netBalance, v.balances[i].youAreOwed,
                    v.balances[i].youOwe)
    /\ \A user \in UserIds :
          LET d == GetUserBalances(user) IN
          SignOk(d.totalBalance, d.youAreOwed, d.youOwe)

\* User 1 is owed on its page with user 2 and owes in the group, and its
\* dashboard total is positive.
C5_Witness ==
    /\ GetSettlementData(1, "user", 2).netBalance > 0
    /\ GetSettlementData(2, "user", 1).netBalance < 0
    /\ \E i \in DOMAIN GetSettlementData(1, "group", 1).balances :
          GetSettlementData(1, "group", 1).balances[i].netBalance < 0
    /\ GetUserBalances(1).totalBalance > 0

RECURSIVE SumOutstanding(_, _, _)
\* Sum of the amounts of the splits of `who` that are neither the payer's nor paid.
SumOutstanding(splits, payer, who) ==
    IF splits = <<>> THEN 0
    ELSE (IF Head(splits).userId \in who /\ Head(splits).userId # payer
             /\ ~Head(splits).paid
          THEN Head(splits).amount ELSE 0)
         + SumOutstanding(Tail(splits), payer, who)

RECURSIVE SumCells(_, _, _)
SumCells(ledger, debtors, creditor) ==
    IF debtors = {} THEN 0
    ELSE LET d == CHOOSE x \in debtors : TRUE IN
         ledger[d][creditor] + SumCells(ledger, debtors \ {d}, creditor)

\* C6: with exactly one expense in a group and no settlements, the debts to
\* the payer sum to the outstanding splits (not the payer's own, not paid) and
\* to totals[payer]; every other member's total is minus its own outstanding
\* splits; no other cell of the ledger holds a debt.
C6_SingleExpenseZeroSum ==
    \A gid \in DOMAIN groups :
        (Len(GroupRecords(expenses, gid)) = 1 /\ GroupRecords(settlements, gid) = <<>>) =>
        LET e == GroupRecords(expenses, gid)[1]
            payer == e.paidByUserId
            ids == Range(groups[gid])
            raw == RawGroupLedger(gid)
            view == GetGroupExpenses(payer, gid)
        IN  /\ SumCells(raw.ledger, ids \ {payer}, payer)
                  = SumOutstanding(e.splits, payer, ids)
            /\ raw.totals[payer] = SumOutstanding(e.splits, payer, ids)
            /\ \A m \in ids \ {payer} :
                  /\ raw.totals[m] = -SumOutstanding(e.splits, payer, {m})
                  /\ raw.ledger[m][payer] = SumOutstanding(e.splits, payer, {m})
                  /\ \A c \in ids \ {m, payer} : raw.ledger[m][c] = 0
            /\ \A c \in ids \ {payer} : raw.ledger[payer][c] = 0
            /\ view.ledger = raw.ledger

\* One expense listing the payer's own split, a split marked paid and an
\* outstanding split.
C6_Witness ==
    /\ Len(expenses) = 1 /\ settlements = <<>>
    /\ expenses[1].groupId = 1
    /\ \E i, j, k \in DOMAIN expenses[1].splits :
          /\ expenses[1].splits[i].userId = expenses[1].paidByUserId
          /\ expenses[1].splits[j].userId # expenses[1].paidByUserId
          /\ expenses[1].splits[j].paid
          /\ expenses[1].splits[k].userId # expenses[1].paidByUserId
          /\ ~expenses[1].splits[k].paid
    /\ RawGroupLedger(1).totals[expenses[1].paidByUserId] > 0

\* C7 as stated: for any two users A and B, what A's view reports as owed to
\* A by B equals what B's view reports as owed by B to A, on the dashboard and
\* on the user page, and the user-page net balances are opposite.
C7_PerspectiveSymmetry ==
    \A a \in UserIds : \A b \in UserIds \ {a} :
        LET da == GetUserBalances(a)
            db == GetUserBalances(b)
            va == GetSettlementData(a, "user", b)
            vb == GetSettlementData(b, "user", a)
        IN  /\ ListedAmount(da.oweDetails.youAreOwedBy, b)
                  = ListedAmount(db.oweDetails.youOwe, a)
            /\ va.youAreOwed = vb.youOwe
            /\ va.netBalance = -vb.netBalance

\* No expense lists a user twice among its splits.
NoDuplicateSplits ==
    \A k \in DOMAIN expenses : \A i, j \in DOMAIN expenses[k].splits :
        expenses[k].splits[i].userId = expenses[k].splits[j].userId => i = j

\* Without duplicate split entries the two perspectives agree.
SymmetryWithoutDuplicateSplits == NoDuplicateSplits => C7_PerspectiveSymmetry

\* Record-level debts outside any group.
RECURSIVE SumShares(_, _, _)
SumShares(exps, debtor, creditor) ==
    IF exps = <<>> THEN 0
    ELSE (IF Head(exps).groupId = NoGroup /\ Head(exps).paidByUserId = creditor
          THEN SumOutstanding(Head(exps).splits, creditor, {debtor}) ELSE 0)
         + SumShares(Tail(exps), debtor, creditor)

SettledBetween(sts, a, b) ==
    \E i \in DOMAIN sts :
        /\ sts[i].groupId = NoGroup
        /\ {sts[i].paidByUserId, sts[i].receivedByUserId} = {a, b}

PairCleared(a, b) ==
    LET da == GetUserBalances(a)
        db == GetUserBalances(b)
        va == GetSettlementData(a, "user", b)
        vb == GetSettlementData(b, "user", a)
    IN  /\ va.youOwe = 0 /\ va.youAreOwed = 0 /\ va.netBalance = 0
        /\ vb.youOwe = 0 /\ vb.youAreOwed = 0 /\ vb.netBalance = 0
        /\ ListedAmount(da.oweDetails.youAreOwedBy, b) = 0
        /\ ListedAmount(da.oweDetails.youOwe, b) = 0
        /\ ListedAmount(db.oweDetails.youAreOwedBy, a) = 0
        /\ ListedAmount(db.oweDetails.youOwe, a) = 0

\* The newest settlement is the first one between its two parties, is 1:1, and
\* pays exactly the payer's outstanding 1:1 shares towards the receiver, who owes
\* the payer nothing.
FullySettledLast ==
    /\ settlements # <<>>
    /\ LET s == settlements[Len(settlements)]
           a == s.receivedByUserId
           b == s.paidByUserId
       IN  /\ s.groupId = NoGroup
           /\ ~SettledBetween(SubSeq(settlements, 1, Len(settlements) - 1), a, b)
           /\ SumShares(expenses, b, a) = s.amount
           /\ SumShares(expenses, a, b) = 0

\* C8 as stated: when B's only outstanding 1:1 debt to A is x (A owes B
\* nothing, no settlement between them yet) and a 1:1 settlement of exactly x
\* from B to A is recorded, both users' dashboards and user pages show nothing
\* outstanding between them and neither lists the other.
C8_FullSettlementClears ==
    FullySettledLast =>
        PairCleared(settlements[Len(settlements)].receivedByUserId,
                    settlements[Len(settlements)].paidByUserId)

\* Without duplicate split entries the full settlement clears the pair.
ClearsWithoutDuplicateSplits ==
    (NoDuplicateSplits /\ FullySettledLast) =>
        PairCleared(settlements[Len(settlements)].receivedByUserId,
                    settlements[Len(settlements)].paidByUserId)

\* Scenario C: A = 1 pays 300 and B = 2 pays 300 in the group of A, B, C = 3,
\* each split equally with the payer's own split marked paid.
ScenarioC ==
    /\ expenses = <<[paidByUserId |-> 1, splits |-> EqualSplits(<<1, 2, 3>>, 300, 1),
                     groupId |-> 1],
                    [paidByUserId |-> 2, splits |-> EqualSplits(<<1, 2, 3>>, 300, 2),
                     groupId |-> 1]>>
    /\ settlements = <<>>

\* C9: in scenario C the raw ledger holds exactly B->A 100, C->A 100, A->B 100,
\* C->B 100, and the group view after netting reports nothing between A and B,
\* C owing A 100 and C owing B 100, and nothing else.
C9_ScenarioC ==
    ScenarioC =>
        LET raw == RawGroupLedger(1).ledger
            view == GetGroupExpenses(1, 1)
        IN  /\ raw = (1 :> ((2 :> 100) @@ (3 :> 0)))
                     @@ (2 :> ((1 :> 100) @@ (3 :> 0)))
                     @@ (3 :> ((1 :> 100) @@ (2 :> 100)))
            /\ view.error = "none"
            /\ view.ledger[1][2] = 0 /\ view.ledger[2][1] = 0
            /\ view.balances[1].owes = <<>>
            /\ view.balances[1].owedBy = <<[from |-> 3, amount |-> 100]>>
            /\ view.balances[2].owes = <<>>
            /\ view.balances[2].owedBy = <<[from |-> 3, amount |-> 100]>>
            /\ view.balances[3].owes = <<[to |-> 1, amount |-> 100],
                                         [to |-> 2, amount |-> 100]>>
            /\ view.balances[3].owedBy = <<>>

C9_Witness == ScenarioC /\ GetGroupExpenses(3, 1).balances[3].totalBalance = -200

\* The arguments createSettlement must reject.
InvalidSettlement(amount, paidBy, receivedBy, gid) ==
    \/ amount <= 0
    \/ paidBy = receivedBy
    \/ /\ gid # NoGroup
       /\ \/ gid \notin DOMAIN groups
          \/ paidBy \notin Range(groups[gid])
          \/ receivedBy \notin Range(groups[gid])

\* C10: createSettlement throws for every invalid argument list (amount <= 0,
\* payer = receiver, a group that does not exist or of which a party is not a
\* member); a call that throws leaves the settlements unchanged, a call that
\* does not throw appends one record; every persisted settlement has amount > 0,
\* distinct parties and, when grouped, two members of its group.
C10_InvalidSettlementRejected ==
    /\ [](/\ \A caller \in UserIds, amt \in AmountArgs, p \in UserIds, r \in UserIds,
               gid \in GroupIdArgs :
                InvalidSettlement(amt, p, r, gid)
                    => CreateSettlementError(caller, amt, p, r, gid) # "none"
          /\ \A i \in DOMAIN settlements :
                ~InvalidSettlement(settlements[i].amount, settlements[i].paidByUserId,
                                   settlements[i].receivedByUserId, settlements[i].groupId))
    /\ [][\/ lastError' # "none" /\ settlements' = settlements
          \/ /\ lastError' = "none"
             /\ Len(settlements') = Len(settlements) + 1
             /\ SubSeq(settlements', 1, Len(settlements)) = settlements]_vars

\* A grouped settlement was accepted and a later call was rejected because a
\* party is not a member of the group.
C10_Witness ==
    /\ lastError = "Both parties must be members of the group"
    /\ Len(settlements) = 1
    /\ settlements[1].groupId # NoGroup

(***************************************************************************)
(* Effect of one more record on the views.                                 *)
(***************************************************************************)
\* The step appended a settlement.
SettlementAdded ==
    /\ Len(settlements') = Len(settlements) + 1
    /\ expenses' = expenses

\* The entry of the group page of `me` about member uid.
GroupEntry(me, gid, uid) ==
    LET b == GroupPage(me, gid).balances
    IN  b[Find([k \in DOMAIN b |-> b[k].userId = uid])]

\* C11 as stated: a settlement from P to R never raises what either owes the
\* other, lowers P's debt to R when P owes R on net and lowers R's debt to P
\* when R owes P on net: in the netted group ledger, on the group page and on
\* the user page.
C11_SettlementReducesDebt ==
    [][SettlementAdded =>
        \A P \in UserIds, R \in UserIds, g \in GroupIdArgs :
          LET s == settlements'[Len(settlements')] IN
          (s.paidByUserId = P /\ s.receivedByUserId = R /\ s.groupId = g) =>
            IF g # NoGroup
            THEN /\ Netted(g)'[P][R] <= Netted(g)[P][R]
                 /\ Netted(g)'[R][P] <= Netted(g)[R][P]
                 /\ Netted(g)[P][R] > 0 => Netted(g)'[P][R] < Netted(g)[P][R]
                 /\ Netted(g)[R][P] > 0 => Netted(g)'[R][P] < Netted(g)[R][P]
                 /\ GroupEntry(P, g, R)'.youOwe <= GroupEntry(P, g, R).youOwe
                 /\ GroupEntry(P, g, R)'.youAreOwed <= GroupEntry(P, g, R).youAreOwed
                 /\ GroupEntry(P, g, R).netBalance < 0
                       => GroupEntry(P, g, R)'.youOwe < GroupEntry(P, g, R).youOwe
                 /\ GroupEntry(P, g, R).netBalance > 0
                       => GroupEntry(P, g, R)'.youAreOwed < GroupEntry(P, g, R).youAreOwed
            ELSE /\ UserPage(P, R)'.youOwe <= UserPage(P, R).youOwe
                 /\ UserPage(P, R)'.youAreOwed <= UserPage(P, R).youAreOwed
                 /\ UserPage(P, R).netBalance < 0
                       => UserPage(P, R)'.youOwe < UserPage(P, R).youOwe
                 /\ UserPage(P, R).netBalance > 0
                       => UserPage(P, R)'.youAreOwed < UserPage(P, R).youAreOwed]_vars

\* C11 amended: a settlement of x from P to R moves the net position of the
\* pair in the group ledger by x in P's favour: with d = what P owed R minus
\* what R owed P before, P owes R max(0, d - x) and R owes P max(0, x - d)
\* afterwards (R's debt to P grows when x > d), and no other pair changes.  On
\* the group page and on the user page it lowers the payer's youOwe towards the
\* receiver and the receiver's youAreOwed from the payer to max(0, old - x)
\* and leaves the payer's youAreOwed and the receiver's youOwe unchanged.
C11_SettlementShiftsNet ==
    [][SettlementAdded =>
        \A P \in UserIds, R \in UserIds, g \in GroupIdArgs :
          LET s == settlements'[Len(settlements')]
              x == s.amount
          IN
          (s.paidByUserId = P /\ s.receivedByUserId = R /\ s.groupId = g) =>
            IF g # NoGroup
            THEN LET d == Netted(g)[P][R] - Netted(g)[R][P] IN
                 /\ Netted(g)'[P][R] = Max(0, d - x)
                 /\ Netted(g)'[R][P] = Max(0, x - d)
                 /\ \A p \in MemberPairs(g) :
                       {p[1], p[2]} # {P, R} => Netted(g)'[p[1]][p[2]] = Netted(g)[p[1]][p[2]]
                 /\ GroupEntry(P, g, R)'.youOwe = Max(0, GroupEntry(P, g, R).youOwe - x)
                 /\ GroupEntry(P, g, R)'.youAreOwed = GroupEntry(P, g, R).youAreOwed
                 /\ GroupEntry(R, g, P)'.youAreOwed
                       = Max(0, GroupEntry(R, g, P).youAreOwed - x)
                 /\ GroupEntry(R, g, P)'.youOwe = GroupEntry(R, g, P).youOwe
            ELSE /\ UserPage(P, R)'.youOwe = Max(0, UserPage(P, R).youOwe - x)
                 /\ UserPage(P, R)'.youAreOwed = UserPage(P, R).youAreOwed
                 /\ UserPage(R, P)'.youAreOwed = Max(0, UserPage(R, P).youAreOwed - x)
                 /\ UserPage(R, P)'.youOwe = UserPage(R, P).youOwe]_vars

\* In the group a member who was owed 100 paid the debtor 500 more and is now
\* owed 600: the settlement raised the receiver's debt to the payer.
C11_Witness ==
    /\ Len(settlements) = 1
    /\ settlements[1].groupId = 1
    /\ settlements[1].amount = 500
    /\ LET P == settlements[1].paidByUserId
           R == settlements[1].receivedByUserId
       IN  /\ RawGroupLedger(1).ledger[R][P] = 100
           /\ Netted(1)[R][P] = 600
           /\ Netted(1)[P][R] = 0

\* Every result computed for one group: the group view (the same for every
\* member who asks), and each member's group page and balance on its list of
\* groups.
GroupViews(gid) ==
    [view |-> GetGroupExpenses(groups[gid][1], gid),
     pages |-> [m \in Range(groups[gid]) |->
                  <<GetSettlementData(m, "group", gid), UserGroupBalance(m, gid)>>]]

\* Every result computed outside any group: each user's dashboard and its
\* user page with every other user.
OneToOneViews ==
    [u \in UserIds |->
        <<GetUserBalances(u),
          [o \in UserIds \ {u} |-> GetSettlementData(u, "user", o)]>>]

\* The step appended an expense or a settlement of scope gid.
RecordAdded(gid) ==
    \/ /\ Len(expenses') = Len(expenses) + 1
       /\ expenses'[Len(expenses')].groupId = gid
    \/ /\ Len(settlements') = Len(settlements) + 1
       /\ settlements'[Len(settlements')].groupId = gid

\* C12: a record added without groupId changes no result of any group (group
\* view, group page, balance on the list of groups); a record added with
\* groupId g changes no dashboard, no user page and no result of another group.
C12_ScopeIsolation ==
    [][/\ RecordAdded(NoGroup) =>
            /\ \A h \in DOMAIN groups : GroupViews(h)' = GroupViews(h)
            /\ \A u \in UserIds : GetUserGroups(u)' = GetUserGroups(u)
       /\ \A g \in DOMAIN SeedGroups :
            RecordAdded(g) =>
                /\ OneToOneViews' = OneToOneViews
                /\ \A h \in DOMAIN groups \ {g} : GroupViews(h)' = GroupViews(h)]_vars

\* Users 2 and 3 have records in all three scopes, and each scope reports a
\* different debt of user 3 to user 2.
C12_Witness ==
    /\ \E i \in DOMAIN expenses : expenses[i].groupId = NoGroup
    /\ \E i \in DOMAIN expenses : expenses[i].groupId = 1
    /\ \E i \in DOMAIN settlements : settlements[i].groupId = 2
    /\ GetSettlementData(2, "user", 3).youAreOwed = 100
    /\ GetUserBalances(2).youAreOwed = 100
    /\ Netted(1)[3][2] = 100
    /\ UserGroupBalance(2, 1) = 100
    /\ Netted(2)[3][2] = 500
    /\ UserGroupBalance(2, 2) = 500

\* The step appended a 1:1 expense that does not involve both a and b.
ForeignExpenseAdded(a, b) ==
    /\ Len(expenses') = Len(expenses) + 1
    /\ LET e == expenses'[Len(expenses')]
           who == {e.paidByUserId} \cup {e.splits[i].userId : i \in DOMAIN e.splits}
       IN  e.groupId = NoGroup /\ ~({a, b} \subseteq who)

\* The step appended a 1:1 settlement between one of a, b and a third user.
ForeignSettlementAdded(a, b) ==
    /\ Len(settlements') = Len(settlements) + 1
    /\ LET st == settlements'[Len(settlements')]
           parties == {st.paidByUserId, st.receivedByUserId}
       IN  /\ st.groupId = NoGroup
           /\ parties # {a, b}
           /\ parties \cap {a, b} # {}

\* C13 as stated: the user page of (subject, counterpart) is unchanged by a 1:1
\* expense that does not involve both of them and by a 1:1 settlement between
\* either of them and a third user.
C13_PairViewLocality ==
    [][\A me \in UserIds : \A other \in UserIds \ {me} :
          (ForeignExpenseAdded(me, other) \/ ForeignSettlementAdded(me, other))
              => GetSettlementData(me, "user", other)' = GetSettlementData(me, "user", other)
      ]_vars

\* The expense half of C13 alone.
PairViewIgnoresForeignExpenses ==
    [][\A me \in UserIds : \A other \in UserIds \ {me} :
          ForeignExpenseAdded(me, other)
              => GetSettlementData(me, "user", other)' = GetSettlementData(me, "user", other)
      ]_vars

\* The raw debts of the group form the cycle a -> b -> c -> a of amount x: each
\* of the three pairs nets to x in that direction.
DebtCycle(gid, a, b, c, x) ==
    LET raw == RawGroupLedger(gid).ledger IN
    /\ {a, b, c} = Range(groups[gid]) /\ a # b /\ b # c /\ a # c
    /\ x > 0
    /\ raw[a][b] - raw[b][a] = x
    /\ raw[b][c] - raw[c][b] = x
    /\ raw[c][a] - raw[a][c] = x

\* C14: when the raw debts of a 3-member group form a cycle of equal amounts
\* x, the group view reports all three debts: every member has exactly one
\* owes entry and one owedBy entry, both of amount x, and totalBalance 0.
C14_NoCycleCancellation ==
    \A gid \in DOMAIN groups : \A a, b, c \in Range(groups[gid]) : \A x \in Amounts :
        DebtCycle(gid, a, b, c, x) =>
            LET view == GetGroupExpenses(a, gid)
                i == Find([k \in DOMAIN view.balances |-> view.balances[k].id = a])
            IN  /\ view.error = "none"
                /\ view.balances[i].owes = <<[to |-> b, amount |-> x]>>
                /\ view.balances[i].owedBy = <<[from |-> c, amount |-> x]>>
                /\ view.balances[i].totalBalance = 0

\* A cycle of 100 stands in the three-member group, two of its debts coming
\* from expenses.
C14_Witness ==
    /\ \E a, b, c \in Range(groups[1]) : DebtCycle(1, a, b, c, 100)
    /\ Len(GroupRecords(expenses, 1)) = 2

(***************************************************************************)
(* Missing profiles.                                                       *)
(***************************************************************************)
\* The amounts of a dashboard, without the display names.
DashboardAmounts(user) ==
    LET d == GetUserBalances(user)
        Bare(list) == [i \in DOMAIN list |-> <<list[i].userId, list[i].amount>>]
    IN  [youOwe |-> d.youOwe, youAreOwed |-> d.youAreOwed,
         totalBalance |-> d.totalBalance,
         owe |-> Bare(d.oweDetails.youOwe),
         owedBy |-> Bare(d.oweDetails.youAreOwedBy)]

\* The amounts of a group page, without the display names.
GroupPageAmounts(me, gid) ==
    LET b == GetSettlementData(me, "group", gid).balances
    IN  [i \in DOMAIN b |->
            <<b[i].userId, b[i].youAreOwed, b[i].youOwe, b[i].netBalance>>]

\* Every entry about uid in the list carries the placeholder name.
NamedUnknown(list, uid) ==
    \A i \in DOMAIN list : list[i].userId = uid => list[i].name = "Unknown"

\* The dashboard and the group pages of caller after the profile of uid went
\* missing: same amounts, placeholder name.
ToleratedOutsideGroupView(caller, uid) ==
    /\ DashboardAmounts(caller)' = DashboardAmounts(caller)
    /\ NamedUnknown(GetUserBalances(caller).oweDetails.youOwe, uid)'
    /\ NamedUnknown(GetUserBalances(caller).oweDetails.youAreOwedBy, uid)'
    /\ \A gid \in DOMAIN SeedGroups :
          IsMember(gid, caller) =>
              /\ GetSettlementData(caller, "group", gid)'.error = "none"
              /\ GroupPageAmounts(caller, gid)' = GroupPageAmounts(caller, gid)
              /\ NamedUnknown(GetSettlementData(caller, "group", gid).balances, uid)'

\* C15 as stated: when the profile of a user goes missing, getUserBalances,
\* the group page and getGroupExpenses of every other user still return a
\* result, with the same amounts as before and the placeholder name for the
\* missing user.
C15_MissingProfileTolerated ==
    [][\A uid \in UserIds :
          (DOMAIN users = UserIds /\ DOMAIN users' = UserIds \ {uid}) =>
              \A caller \in UserIds \ {uid} :
                  /\ ToleratedOutsideGroupView(caller, uid)
                  /\ \A gid \in DOMAIN SeedGroups :
                        IsMember(gid, caller) =>
                            /\ GetGroupExpenses(caller, gid)'.error = "none"
                            /\ GetGroupExpenses(caller, gid)'.balances
                                   = GetGroupExpenses(caller, gid).balances]_vars

\* The dashboard and the group page do tolerate missing profiles: every
\* remaining user gets a result, with the placeholder name for each user whose
\* profile is missing.
MissingProfileNamedUnknown ==
    \A caller \in DOMAIN users : \A uid \in UserIds \ DOMAIN users :
        /\ NamedUnknown(GetUserBalances(caller).oweDetails.youOwe, uid)
        /\ NamedUnknown(GetUserBalances(caller).oweDetails.youAreOwedBy, uid)
        /\ \A gid \in DOMAIN groups :
              IsMember(gid, caller) =>
                  /\ GetSettlementData(caller, "group", gid).error = "none"
                  /\ NamedUnknown(GetSettlementData(caller, "group", gid).balances, uid)

(***************************************************************************)
(* Scopes that do not resolve.                                             *)
(***************************************************************************)
\* The query threw: an error message and nothing else.
Rejected(result, message) == result = [error |-> message]

\* C16: getSettlementData throws "User not found" when the counterpart id has
\* no profile, "Group not found" when the group id has no group, "You are not
\* a member of this group" when the caller is not a member, and the invalid
\* entityType error for a type other than user and group; getGroupExpenses
\* throws for a group id with no group and for a caller who is not a member.
\* The result then carries no balance payload.
C16_BadScopeRejected ==
    \A me \in DOMAIN users :
        /\ \A other \in UserIdArgs \ DOMAIN users :
              Rejected(GetSettlementData(me, "user", other), "User not found")
        /\ \A gid \in GroupIdArgs :
              /\ gid \notin DOMAIN groups =>
                    /\ Rejected(GetSettlementData(me, "group", gid), "Group not found")
                    /\ Rejected(GetGroupExpenses(me, gid), "Group not found")
              /\ (gid \in DOMAIN groups /\ me \notin Range(groups[gid])) =>
                    /\ Rejected(GetSettlementData(me, "group", gid),
                                "You are not a member of this group")
                    /\ Rejected(GetGroupExpenses(me, gid),
                                "You are not a member of this group")
        /\ \A entityType \in EntityTypes \ {"user", "group"} :
              \A id \in UserIdArgs :
                 Rejected(GetSettlementData(me, entityType, id),
                          "Invalid entityType; expected 'user' or 'group'")

\* User 1 asks about user 3, whose profile is gone while a 1:1 debt between
\* them is on record, and about the two-member group, which has records and of
\* which user 1 is not a member.
C16_Witness ==
    /\ 1 \in DOMAIN users /\ 3 \notin DOMAIN users
    /\ \E i \in DOMAIN expenses :
          /\ expenses[i].groupId = NoGroup
          /\ expenses[i].paidByUserId = 1
          /\ expenses[i].splits[1].userId = 3
    /\ GroupRecords(expenses, 2) # <<>>
    /\ GetSettlementData(1, "user", 3).error = "User not found"
    /\ GetSettlementData(1, "group", 2).error = "You are not a member of this group"
    /\ GetGroupExpenses(1, 2).error = "You are not a member of this group"

(***************************************************************************)
(* The lists of the dashboard.                                             *)
(***************************************************************************)
\* What the dashboard of user counts as owed by / owing to counterpart c, from
\* the 1:1 records: every unpaid split of c in the expenses user paid; the first
\* split of user, when unpaid, in the expenses c paid; settlements either way.
RECURSIVE SumFirstShares(_, _, _)
SumFirstShares(exps, user, payer) ==
    IF exps = <<>> THEN 0
    ELSE LET e == Head(exps)
             mine == {k \in DOMAIN e.splits : e.splits[k].userId = user}
             first == CHOOSE k \in mine : \A l \in mine : k <= l
         IN  (IF e.groupId = NoGroup /\ e.paidByUserId = payer /\ mine # {}
                 /\ ~e.splits[first].paid
              THEN e.splits[first].amount ELSE 0)
             + SumFirstShares(Tail(exps), user, payer)

RECURSIVE SumSettled(_, _, _)
SumSettled(sts, payer, receiver) ==
    IF sts = <<>> THEN 0
    ELSE (IF Head(sts).groupId = NoGroup /\ Head(sts).paidByUserId = payer
             /\ Head(sts).receivedByUserId = receiver
          THEN Head(sts).amount ELSE 0)
         + SumSettled(Tail(sts), payer, receiver)

DashboardNet(user, c) ==
    (SumShares(expenses, c, user) - SumSettled(settlements, c, user))
    - (SumFirstShares(expenses, user, c) - SumSettled(settlements, user, c))

\* The indices of the entries of the list about uid.
EntriesOf(list, uid) == {i \in DOMAIN list : list[i].userId = uid}

\* C17: on the dashboard a counterpart is listed in youAreOwedBy exactly when
\* its net (owed - owing after settlements) is positive and in youOwe exactly
\* when it is negative, once, with amount |net|; with net 0 it is in neither
\* list; no counterpart is in both lists.
C17_DashboardLists ==
    \A user \in UserIds : \A c \in UserIds \ {user} :
        LET d == GetUserBalances(user).oweDetails
            net == DashboardNet(user, c)
            owedBy == EntriesOf(d.youAreOwedBy, c)
            owe == EntriesOf(d.youOwe, c)
        IN  /\ (owedBy # {}) = (net > 0)
            /\ (owe # {}) = (net < 0)
            /\ Cardinality(owedBy) <= 1 /\ Cardinality(owe) <= 1
            /\ \A i \in owedBy : d.youAreOwedBy[i].amount = net
            /\ \A i \in owe : d.youOwe[i].amount = -net
            /\ owedBy = {} \/ owe = {}
            /\ EntriesOf(d.youAreOwedBy, user) = {} /\ EntriesOf(d.youOwe, user) = {}

\* One counterpart of user 1 has paid its debt exactly and is in neither list,
\* the other was paid more than user 1 owed and is listed as owing user 1.
C17_Witness ==
    \E c \in {2, 3} : \E o \in {2, 3} \ {c} :
        /\ SumShares(expenses, c, 1) > 0
        /\ SumSettled(settlements, c, 1) = SumShares(expenses, c, 1)
        /\ DashboardNet(1, c) = 0
        /\ EntriesOf(GetUserBalances(1).oweDetails.youAreOwedBy, c) = {}
        /\ EntriesOf(GetUserBalances(1).oweDetails.youOwe, c) = {}
        /\ SumFirstShares(expenses, 1, o) > 0
        /\ SumSettled(settlements, 1, o) > SumFirstShares(expenses, 1, o)
        /\ EntriesOf(GetUserBalances(1).oweDetails.youAreOwedBy, o) # {}

(***************************************************************************)
(* Order of the lists.                                                     *)
(***************************************************************************)
\* The moments at which the dashboard of user meets counterpart c: <<1, i, k>>
\* for split k of the i-th expense (0 for the user's own split), <<2, j, 0>>
\* for the j-th settlement.
SeenAt(user, c) ==
    UNION {{<<1, i, k>> : k \in {k \in DOMAIN expenses[i].splits :
                                    /\ expenses[i].splits[k].userId = c
                                    /\ ~expenses[i].splits[k].paid}} :
             i \in {i \in DOMAIN expenses :
                      /\ expenses[i].groupId = NoGroup
                      /\ expenses[i].paidByUserId = user}}
    \cup {<<1, i, 0>> : i \in {i \in DOMAIN expenses :
            /\ expenses[i].groupId = NoGroup
            /\ expenses[i].paidByUserId = c
            /\ \E k \in DOMAIN expenses[i].splits :
                  /\ expenses[i].splits[k].userId = user
                  /\ ~expenses[i].splits[k].paid
                  /\ \A l \in 1..(k - 1) : expenses[i].splits[l].userId # user}}
    \cup {<<2, j, 0>> : j \in {j \in DOMAIN settlements :
            /\ settlements[j].groupId = NoGroup
            /\ {settlements[j].paidByUserId, settlements[j].receivedByUserId}
                  = {user, c}}}

Earlier(t, u) ==
    \/ t[1] < u[1]
    \/ t[1] = u[1] /\ t[2] < u[2]
    \/ t[1] = u[1] /\ t[2] = u[2] /\ t[3] < u[3]

\* Counterpart c was first met by the dashboard of user before counterpart d.
SeenBefore(user, c, d) ==
    \E t \in SeenAt(user, c) : \A u \in SeenAt(user, d) : Earlier(t, u)

\* Member c comes before member d in the group.
MemberBefore(gid, c, d) ==
    \E i, j \in DOMAIN groups[gid] :
        groups[gid][i] = c /\ groups[gid][j] = d /\ i < j

\* C18: the youOwe and youAreOwedBy lists of the dashboard and the owedBy and
\* owes lists of the group balance component are in descending order of
\* amount; entries of equal amount are in first-seen order of the counterpart
\* on the dashboard and in member order in the group.
C18_ListOrder ==
    /\ \A user \in UserIds :
          \A list \in {GetUserBalances(user).oweDetails.youOwe,
                       GetUserBalances(user).oweDetails.youAreOwedBy} :
             \A i, j \in DOMAIN list :
                i < j =>
                    /\ list[i].amount >= list[j].amount
                    /\ list[i].amount = list[j].amount
                          => SeenBefore(user, list[i].userId, list[j].userId)
    /\ \A gid \in DOMAIN groups : \A me \in Range(groups[gid]) :
          LET shown == GroupBalances(me, GetGroupExpenses(me, gid).balances) IN
          /\ shown.shown
          /\ \A list \in {shown.owedByMembers, shown.owingToMembers} :
                \A i, j \in DOMAIN list :
                   i < j =>
                       /\ list[i].amount >= list[j].amount
                       /\ list[i].amount = list[j].amount
                             => MemberBefore(gid, list[i].id, list[j].id)

\* On the dashboard of user 1 two counterparts owe the same amount and the one
\* with the larger id, met first, is listed first; in the group the component
\* lists member 3 before member 2 because member 3 owes user 1 more.
C18_Witness ==
    /\ LET list == GetUserBalances(1).oweDetails.youAreOwedBy IN
       /\ Len(list) = 2
       /\ list[1].userId = 3 /\ list[2].userId = 2
       /\ list[1].amount = list[2].amount
    /\ LET shown == GroupBalances(1, GetGroupExpenses(1, 1).balances) IN
       /\ Len(shown.owedByMembers) = 2
       /\ shown.owedByMembers[1].id = 3 /\ shown.owedByMembers[2].id = 2
       /\ shown.owedByMembers[1].amount > shown.owedByMembers[2].amount

(***************************************************************************)
(* Duplicate split entries.                                                *)
(***************************************************************************)
\* The debt of debtor to creditor on record in scope gid: every split of
\* debtor that is not paid, in the expenses creditor paid.
RECURSIVE SumSharesIn(_, _, _, _)
SumSharesIn(exps, gid, debtor, creditor) ==
    IF exps = <<>> THEN 0
    ELSE (IF Head(exps).groupId = gid /\ Head(exps).paidByUserId = creditor
          THEN SumOutstanding(Head(exps).splits, creditor, {debtor}) ELSE 0)
         + SumSharesIn(Tail(exps), gid, debtor, creditor)

RECURSIVE SumOver(_, _, _, _)
\* Sum of the debts on record in scope gid of the users of `others` to user
\* (towards = TRUE) or of user to them.
SumOver(others, gid, user, towards) ==
    IF others = {} THEN 0
    ELSE LET o == CHOOSE x \in others : TRUE IN
         (IF towards THEN SumSharesIn(expenses, gid, o, user)
          ELSE SumSharesIn(expenses, gid, user, o))
         + SumOver(others \ {o}, gid, user, towards)

\* Every split counts on the 1:1 dashboard of both sides.
DuplicatesCountedOnDashboard ==
    \A a \in UserIds :
        /\ GetUserBalances(a).youAreOwed = SumOver(UserIds \ {a}, NoGroup, a, TRUE)
        /\ GetUserBalances(a).youOwe = SumOver(UserIds \ {a}, NoGroup, a, FALSE)

\* Every split counts on the user page of both sides.
DuplicatesCountedOnUserPage ==
    \A a \in UserIds : \A b \in UserIds \ {a} :
        /\ GetSettlementData(a, "user", b).youAreOwed = SumSharesIn(expenses, NoGroup, b, a)
        /\ GetSettlementData(a, "user", b).youOwe = SumSharesIn(expenses, NoGroup, a, b)

\* Every split counts in the ledger and the totals of the group view.
DuplicatesCountedInGroupLedger ==
    \A gid \in DOMAIN groups : \A a \in Range(groups[gid]) :
        /\ \A b \in Range(groups[gid]) \ {a} :
              RawGroupLedger(gid).ledger[b][a] = SumSharesIn(expenses, gid, b, a)
        /\ RawGroupLedger(gid).totals[a]
              = SumOver(Range(groups[gid]) \ {a}, gid, a, TRUE)
                - SumOver(Range(groups[gid]) \ {a}, gid, a, FALSE)

\* Every split counts on the group page of both sides.
DuplicatesCountedOnGroupPage ==
    \A gid \in DOMAIN groups : \A a \in Range(groups[gid]) :
        \A b \in Range(groups[gid]) \ {a} :
            /\ GroupEntry(a, gid, b).youAreOwed = SumSharesIn(expenses, gid, b, a)
            /\ GroupEntry(a, gid, b).youOwe = SumSharesIn(expenses, gid, a, b)

\* Every split counts in the balance of the list of groups.
DuplicatesCountedInUserGroups ==
    \A gid \in DOMAIN groups : \A a \in Range(groups[gid]) :
        UserGroupBalance(a, gid)
            = SumOver(Range(groups[gid]) \ {a}, gid, a, TRUE)
              - SumOver(Range(groups[gid]) \ {a}, gid, a, FALSE)

\* C19 as stated: with no settlements on record, every view reports as the
\* debt of a user to a payer the sum of all the unpaid splits that list the
\* user in the payer's expenses, duplicates included: the group ledger and
\* totals, the dashboard, the list of groups, the user page and the group page.
C19_DuplicatesDoubleCount ==
    settlements = <<>> =>
        /\ DuplicatesCountedInGroupLedger
        /\ DuplicatesCountedOnDashboard
        /\ DuplicatesCountedInUserGroups
        /\ DuplicatesCountedOnUserPage
        /\ DuplicatesCountedOnGroupPage

\* Without duplicate listings every view reports the debts on record.
CountsWithoutDuplicateSplits ==
    (settlements = <<>> /\ NoDuplicateSplits) =>
        /\ DuplicatesCountedInGroupLedger
        /\ DuplicatesCountedOnDashboard
        /\ DuplicatesCountedInUserGroups
        /\ DuplicatesCountedOnUserPage
        /\ DuplicatesCountedOnGroupPage

(***************************************************************************)
(* The views as functions of the record set.                               *)
(***************************************************************************)
\* The records of a table without their order: record -> number of copies.
BagOf(table) ==
    [r \in Range(table) |-> Cardinality({i \in DOMAIN table : table[i] = r})]

\* What one expense counts as the debt of the debtors to its payer:
\* "all": every unpaid split of a debtor; "first": the debtor's first split,
\* when it is unpaid; "firstUnpaid": the debtor's first unpaid split.
ShareOf(kind, e, debtors) ==
    LET listed == {k \in DOMAIN e.splits : e.splits[k].userId \in debtors}
        unpaid == {k \in listed : ~e.splits[k].paid}
        first == CHOOSE k \in listed : \A l \in listed : k <= l
        firstUnpaid == CHOOSE k \in unpaid : \A l \in unpaid : k <= l
    IN  IF kind = "all" THEN SumOutstanding(e.splits, e.paidByUserId, debtors)
        ELSE IF kind = "first"
        THEN (IF listed # {} /\ ~e.splits[first].paid THEN e.splits[first].amount ELSE 0)
        ELSE (IF unpaid # {} THEN e.splits[firstUnpaid].amount ELSE 0)

RECURSIVE BagShares(_, _, _, _, _, _)
BagShares(kind, bag, recs, gid, debtors, creditors) ==
    IF recs = {} THEN 0
    ELSE LET e == CHOOSE x \in recs : TRUE IN
         (IF e.groupId = gid /\ e.paidByUserId \in creditors
          THEN bag[e] * ShareOf(kind, e, debtors) ELSE 0)
         + BagShares(kind, bag, recs \ {e}, gid, debtors, creditors)

RECURSIVE BagSettled(_, _, _, _, _)
BagSettled(bag, recs, gid, payers, receivers) ==
    IF recs = {} THEN 0
    ELSE LET st == CHOOSE x \in recs : TRUE IN
         (IF st.groupId = gid /\ st.paidByUserId \in payers
             /\ st.receivedByUserId \in receivers
          THEN bag[st] * st.amount ELSE 0)
         + BagSettled(bag, recs \ {st}, gid, payers, receivers)

\* Debts and payments of scope gid, from the record sets alone.
Shares(kind, gid, debtors, creditors) ==
    BagShares(kind, BagOf(expenses), Range(expenses), gid, debtors, creditors)

Settled(gid, payers, receivers) ==
    BagSettled(BagOf(settlements), Range(settlements), gid, payers, receivers)

\* The pairs <<counterpart, amount>> of a list, without their order.
Pairs(list) == {<<list[i].userId, list[i].amount>> : i \in DOMAIN list}

OrderFreeGroupView(gid) ==
    LET M == Range(groups[gid])
        raw == RawGroupLedger(gid)
        view == GetGroupExpenses(groups[gid][1], gid)
        Cell(b, a) == Shares("all", gid, {b}, {a}) - Settled(gid, {b}, {a})
    IN  \A a \in M :
           /\ raw.totals[a] = Shares("all", gid, M \ {a}, {a})
                              - Shares("all", gid, {a}, M \ {a})
                              + Settled(gid, {a}, M \ {a}) - Settled(gid, M \ {a}, {a})
           /\ UserGroupBalance(a, gid)
                 = Shares("all", gid, M \ {a}, {a}) - Shares("first", gid, {a}, M \ {a})
                   + Settled(gid, {a}, M \ {a}) - Settled(gid, M \ {a}, {a})
           /\ \A b \in M \ {a} :
                 /\ raw.ledger[b][a] = Cell(b, a)
                 /\ view.ledger[b][a] = Max(0, Cell(b, a) - Cell(a, b))
                 /\ GroupEntry(a, gid, b).youAreOwed
                       = Max(0, Shares("all", gid, {b}, {a}) - Settled(gid, {b}, {a}))
                 /\ GroupEntry(a, gid, b).youOwe
                       = Max(0, Shares("firstUnpaid", gid, {a}, {b})
                                - Settled(gid, {a}, {b}))

OrderFreeDashboard(a) ==
    LET d == GetUserBalances(a)
        O == UserIds \ {a}
        Net(c) == (Shares("all", NoGroup, {c}, {a}) - Settled(NoGroup, {c}, {a}))
                  - (Shares("first", NoGroup, {a}, {c}) - Settled(NoGroup, {a}, {c}))
    IN  /\ d.youAreOwed = Shares("all", NoGroup, O, {a}) - Settled(NoGroup, O, {a})
        /\ d.youOwe = Shares("first", NoGroup, {a}, O) - Settled(NoGroup, {a}, O)
        /\ Pairs(d.oweDetails.youAreOwedBy) = {<<c, Net(c)>> : c \in {c \in O : Net(c) > 0}}
        /\ Pairs(d.oweDetails.youOwe) = {<<c, -Net(c)>> : c \in {c \in O : Net(c) < 0}}
        /\ Len(d.oweDetails.youAreOwedBy) = Cardinality(Pairs(d.oweDetails.youAreOwedBy))
        /\ Len(d.oweDetails.youOwe) = Cardinality(Pairs(d.oweDetails.youOwe))

OrderFreeUserPage(a, b) ==
    LET v == GetSettlementData(a, "user", b) IN
    /\ v.youAreOwed = Max(0, Shares("firstUnpaid", NoGroup, {b}, {a})
                             - Settled(NoGroup, {b}, UserIds))
    /\ v.youOwe = Max(0, Shares("firstUnpaid", NoGroup, {a}, {b})
                         - Settled(NoGroup, {a}, UserIds))
    /\ v.netBalance = v.youAreOwed - v.youOwe

\* C20: every amount of every balance view is a function of the sets of
\* expense and settlement records alone (each record with its number of
\* copies), whatever the order in which the tables hold them: the group
\* ledger and totals, the list of groups, the group page and the user page
\* with their clamping, and the dashboard.
C20_OrderIndependent ==
    /\ \A gid \in DOMAIN groups : OrderFreeGroupView(gid)
    /\ \A a \in UserIds : OrderFreeDashboard(a)
    /\ \A a \in UserIds : \A b \in UserIds \ {a} : OrderFreeUserPage(a, b)

\* In one scope user 1 owes user 2 100 and paid 500 first and 100 afterwards,
\* and both scopes hold an expense.
C20_Witness ==
    /\ Len(settlements) = 2
    /\ settlements[1].paidByUserId = 1 /\ settlements[1].receivedByUserId = 2
    /\ settlements[2].paidByUserId = 1 /\ settlements[2].receivedByUserId = 2
    /\ settlements[1].groupId = settlements[2].groupId
    /\ settlements[1].amount = 500 /\ settlements[2].amount = 100
    /\ Shares("all", settlements[1].groupId, {1}, {2}) = 100
    /\ Len(expenses) = 2
    /\ expenses[1].groupId # expenses[2].groupId

(***************************************************************************)
(* Properties of the expense form.                                         *)
(***************************************************************************)
\* Math.abs(sum - amount) <= 0.01 on the doubles of the form.
WithinTolerance(splits, text) ==
    ~FloatGreater(FloatAbsDiff(TotalAmount(splits), ParseFloat(text)), Tolerance)

\* The distance between the sum of the shares and the amount as decimals, in
\* half hundredths.
RECURSIVE SumHalves(_, _)
SumHalves(splits, i) ==
    IF i > Len(splits) THEN 0 ELSE splits[i].amount.k + SumHalves(splits, i + 1)

DecimalDistance(splits, text) == Abs(SumHalves(splits, 1) - 2 * text)

\* A submission that passed the schema has taken place.
Submitted ==
    /\ form.sent = NothingSent
    /\ SchemaErrors(form.description, form.amount, form.paidByUserId) = {}
    /\ toast' # toast \/ hook' # hook \/ form'.sent # form.sent

\* createExpense.mutate was called in this step.
Sending == form.sent = NothingSent /\ form'.sent # NothingSent

\* C21: the expense form calls createExpense only when the shares sum to the
\* amount within 0.01 (as the doubles compare, and also as decimals), and the
\* expense that enters the records is the one that was sent, whatever the
\* form holds when the answer arrives; a submission whose sums differ by more
\* shows the error toast, calls no mutation, does not reset the fields and
\* leaves the records as they were.
C21_SubmitOnlyWithinTolerance ==
    [][/\ Sending =>
            /\ SchemaErrors(form.description, form.amount, form.paidByUserId) = {}
            /\ WithinTolerance(form.splits, form.amount)
            /\ DecimalDistance(form.splits, form.amount) <= 2
            /\ form'.sent[1].amount = form.amount
            /\ form'.sent[1].paidByUserId = form.paidByUserId
            /\ Len(form'.sent[1].splits) = Len(form.splits)
            /\ \A k \in DOMAIN form.splits :
                  /\ form'.sent[1].splits[k].userId = form.splits[k].userId
                  /\ form'.sent[1].splits[k].amount = form.splits[k].amount
       /\ expenses' # expenses =>
            /\ form.sent # NothingSent
            /\ WithinTolerance(form.sent[1].splits, form.sent[1].amount)
            /\ expenses' = Append(expenses,
                                  [paidByUserId |-> form.sent[1].paidByUserId,
                                   splits |-> form.sent[1].splits,
                                   groupId |-> NoGroup])
       /\ (Submitted /\ ~WithinTolerance(form.splits, form.amount)) =>
            /\ toast' = SplitMismatchToast
            /\ form'.description = form.description
            /\ form'.amount = form.amount
            /\ form'.paidByUserId = form.paidByUserId
            /\ form'.splits = form.splits
            /\ form'.sent = NothingSent
            /\ UNCHANGED <<users, groups, groupDocs, expenses, settlements,
                           lastError, hook, calls>>
       /\ (/\ form.sent = NothingSent
           /\ SchemaErrors(form.description, form.amount, form.paidByUserId) = {}
           /\ DecimalDistance(form.splits, form.amount) > 2) =>
            form'.sent = NothingSent /\ expenses' = expenses /\ hook' = hook]_vars

\* An expense was created; a later submission was turned down with the
\* toast; the next one, of 0.02 with shares within the tolerance, was sent,
\* and while it is in flight the description was emptied and the shares were
\* typed down to 0, which the form would turn down.
C21_Witness ==
    /\ Len(expenses) = 1
    /\ WithinTolerance(expenses[1].splits, 2)
    /\ toast = SplitMismatchToast
    /\ form.sent # NothingSent
    /\ form.sent[1].amount = 2
    /\ WithinTolerance(form.sent[1].splits, form.sent[1].amount)
    /\ form.description = ""
    /\ form.amount = 2
    /\ form.paidByUserId # form.sent[1].paidByUserId
    /\ TotalAmount(form.splits) = Zero
    /\ ~WithinTolerance(form.splits, form.amount)

(***************************************************************************)
(* Properties of the two group ledgers.                                    *)
(***************************************************************************)
RECURSIVE SumTotalBalance(_, _)
SumTotalBalance(balances, i) ==
    IF i > Len(balances) THEN 0
    ELSE balances[i].totalBalance + SumTotalBalance(balances, i + 1)

\* C22: the totalBalance values that getGroupExpenses returns for the members
\* of a group add up to 0, whatever group expenses and settlements are on
\* record.
C22_GroupTotalsZeroSum ==
    \A gid \in DOMAIN groups :
        LET view == GetGroupExpenses(groups[gid][1], gid) IN
        /\ view.error = "none"
        /\ SumTotalBalance(view.balances, 1) = 0

\* The three-member group has an expense and a settlement on record, and a
\* member whose total is not 0.
C22_Witness ==
    /\ GroupRecords(expenses, 1) # <<>>
    /\ GroupRecords(settlements, 1) # <<>>
    /\ \E i \in 1..3 : GetGroupExpenses(1, 1).balances[i].totalBalance > 0

RECURSIVE SumAmounts(_, _)
SumAmounts(list, i) ==
    IF i > Len(list) THEN 0 ELSE list[i].amount + SumAmounts(list, i + 1)

\* C23: for every member of a group, the totalBalance that getGroupExpenses
\* returns equals the sum of the amounts of the member's owedBy list minus
\* the sum of the amounts of the member's owes list.
C23_TotalsMatchPairwiseLedger ==
    \A gid \in DOMAIN groups :
        LET view == GetGroupExpenses(groups[gid][1], gid) IN
        \A i \in DOMAIN view.balances :
            view.balances[i].totalBalance
              = SumAmounts(view.balances[i].owedBy, 1)
                  - SumAmounts(view.balances[i].owes, 1)

\* A member of the three-member group with entries in both lists after
\* expenses and a settlement.
C23_Witness ==
    /\ GroupRecords(settlements, 1) # <<>>
    /\ \E i \in 1..3 :
          LET b == GetGroupExpenses(1, 1).balances[i] IN
          /\ b.owes # <<>>
          /\ b.owedBy # <<>>
          /\ b.totalBalance # 0

(***************************************************************************)
(* Agreement between the views.                                            *)
(***************************************************************************)
\* The signed net the dashboard of `user` reports for x: +amount when x is
\* listed in youAreOwedBy, -amount when x is listed in youOwe, 0 otherwise.
DashboardSignedNet(user, x) ==
    LET details == GetUserBalances(user).oweDetails IN
    ListedAmount(details.youAreOwedBy, x) - ListedAmount(details.youOwe, x)

\* C24 as stated: for every user and every counterpart x, the netBalance of
\* the user page about x equals the signed net the dashboard reports for x,
\* also when a settlement exceeds the debt it pays down.
C24_PairViewMatchesDashboard ==
    \A me \in UserIds : \A x \in UserIds \ {me} :
        GetSettlementData(me, "user", x).netBalance = DashboardSignedNet(me, x)

\* The two views agree as long as no one-to-one settlement is on record.
PairViewMatchesDashboardUnsettled ==
    GroupRecords(settlements, NoGroup) = <<>> => C24_PairViewMatchesDashboard

\* The netBalance the group page of `me` reports for member x.
GroupPageNet(me, gid, x) ==
    LET list == GetSettlementData(me, "group", gid).balances
        i == Find([k \in DOMAIN list |-> list[k].userId = x])
    IN  list[i].netBalance

\* What x owes me minus what I owe x in the netted ledger of getGroupExpenses,
\* read from the owes lists.
GroupLedgerNet(me, gid, x) ==
    LET view == GetGroupExpenses(me, gid)
        OwesOf(a) ==
            view.balances[Find([k \in DOMAIN view.balances |->
                                   view.balances[k].id = a])].owes
        Towards(a, b) ==
            LET i == Find([k \in DOMAIN OwesOf(a) |-> OwesOf(a)[k].to = b])
            IN  IF i = 0 THEN 0 ELSE OwesOf(a)[i].amount
    IN  Towards(x, me) - Towards(me, x)

\* C25 as stated: for every member me of a group and every other member x,
\* the netBalance of the group page about x equals the netted ledger's
\* ledger[x][me] - ledger[me][x] of getGroupExpenses.
C25_GroupPageMatchesLedger ==
    \A gid \in DOMAIN groups : \A me \in Range(groups[gid]) :
        \A x \in Range(groups[gid]) \ {me} :
            GroupPageNet(me, gid, x) = GroupLedgerNet(me, gid, x)

\* The group page and the group ledger agree as long as the group has no
\* settlement on record.
GroupPageMatchesLedgerUnsettled ==
    (\A gid \in DOMAIN groups : GroupRecords(settlements, gid) = <<>>)
        => C25_GroupPageMatchesLedger

(***************************************************************************)
(* The two split-sum checks of the expense form.                           *)
(***************************************************************************)
\* C26 as stated: whenever the form can be submitted, onSubmit accepts the
\* splits exactly when the split selector shows the total as valid, also
\* when the sum differs from the amount by exactly 0.01.
C26_ValidityChecksAgree ==
    SchemaErrors(form.description, form.amount, form.paidByUserId) = {} =>
        (~SplitsDontAddUp(form.splits, form.amount)
            <=> IsAmountValid(form.splits, form.amount))

\* The two checks agree unless the doubles differ by exactly the double 0.01.
ValidityChecksAgreeOffTolerance ==
    (/\ SchemaErrors(form.description, form.amount, form.paidByUserId) = {}
     /\ FloatAbsDiff(TotalAmount(form.splits), ParseFloat(form.amount)) # Tolerance)
        => (~SplitsDontAddUp(form.splits, form.amount)
              <=> IsAmountValid(form.splits, form.amount))

(***************************************************************************)
(* Who may record a settlement.                                            *)
(***************************************************************************)
NotAPartyMessage == "You must be either the payer or the receiver"

\* C27: createSettlement inserts nothing when it rejects a caller who is
\* neither the payer nor the receiver, and every settlement on record was
\* created by its payer or its receiver.
C27_OnlyPartiesRecord ==
    [][/\ lastError' = NotAPartyMessage => settlements' = settlements
       /\ \A i \in DOMAIN settlements' :
             settlements'[i].createdBy \in {settlements'[i].paidByUserId,
                                           settlements'[i].receivedByUserId}]_vars

\* A settlement recorded by its receiver is on record, and the last call, by
\* a third user, was turned away.
C27_Witness ==
    /\ lastError = NotAPartyMessage
    /\ \E i \in DOMAIN settlements :
          settlements[i].createdBy = settlements[i].receivedByUserId

(***************************************************************************)
(* Properties of createGroup.                                              *)
(***************************************************************************)
\* Number of positions of ids that hold uid.
Occurrences(ids, uid) == Cardinality({i \in DOMAIN ids : ids[i] = uid})

\* Group gid lists its creator once as admin and everyone else once as
\* member, and its name is trimmed and not empty.
WellFormedGroup(table, docs, gid) ==
    LET ids == table[gid]
        doc == docs[gid]
    IN  /\ DOMAIN doc.roles = DOMAIN ids
        /\ Occurrences(ids, doc.createdBy) = 1
        /\ \A i \in DOMAIN ids :
              /\ Occurrences(ids, ids[i]) = 1
              /\ doc.roles[i] = IF ids[i] = doc.createdBy THEN "admin" ELSE "member"
        /\ doc.name # <<>>
        /\ Head(doc.name) \notin Whitespace
        /\ doc.name[Len(doc.name)] \notin Whitespace

\* C28: a call of createGroup that succeeds adds one group, whose members
\* are the requested ids and the creator, each once, the creator as admin
\* and the others as members, under a trimmed name that is not empty; a call
\* with a blank name or with a member id that resolves to no user throws and
\* leaves the groups table as it was; every group created so far is of that
\* form.
C28_CreatedGroupWellFormed ==
    /\ \A gid \in DOMAIN groups \ DOMAIN SeedGroups :
          WellFormedGroup(groups, groupDocs, gid)
    /\ \A identity \in Identities, name \in GroupNames, members \in MemberLists :
          LET result == CreateGroupResult(identity, name, members)
              me == GetCurrentUser(identity)
              blank == \A i \in DOMAIN name : name[i] \in Whitespace
              unresolved == \E i \in DOMAIN members : members[i] \notin DOMAIN users
          IN  IF result.error = "none"
              THEN /\ ~blank /\ ~unresolved /\ me.error = "none"
                   /\ DOMAIN result.groups = DOMAIN groups \cup {result.returned}
                   /\ result.returned \notin DOMAIN groups
                   /\ \A g \in DOMAIN groups :
                         result.groups[g] = groups[g] /\ result.groupDocs[g] = groupDocs[g]
                   /\ Range(result.groups[result.returned]) = Range(members) \cup {me.id}
                   /\ result.groupDocs[result.returned].createdBy = me.id
                   /\ WellFormedGroup(result.groups, result.groupDocs, result.returned)
              ELSE /\ blank \/ unresolved \/ me.error # "none"
                   /\ result.groups = groups
                   /\ result.groupDocs = groupDocs

\* A group of three was created by a caller who is listed last, so was not
\* named first in the request, and a later call naming an unknown user was
\* turned away.
C28_Witness ==
    /\ 4 \in DOMAIN groups
    /\ Len(groups[4]) = 3
    /\ groupDocs[4].createdBy = groups[4][3]
    /\ groupDocs[4].roles[3] = "admin"
    /\ lastError = "User with ID 4 not found"

(***************************************************************************)
(* Properties of users.store.                                              *)
(***************************************************************************)
\* C29: no two profiles share a tokenIdentifier; a call of store for a token
\* already stored returns the id of its profile, adds no profile and changes
\* nothing but that profile's name; a call without an identity throws and
\* leaves the table as it was.
C29_OneProfilePerToken ==
    /\ \A u \in DOMAIN users, w \in DOMAIN users :
          users[u].tokenIdentifier = users[w].tokenIdentifier => u = w
    /\ \A identity \in StoreIdentities :
          LET result == StoreResult(identity) IN
          /\ identity = NoIdentity =>
                result.error # "none" /\ result.users = users
          /\ \A u \in DOMAIN users :
                (identity # NoIdentity
                   /\ users[u].tokenIdentifier = identity.tokenIdentifier) =>
                    /\ result.error = "none"
                    /\ result.returned = u
                    /\ DOMAIN result.users = DOMAIN users
                    /\ \A w \in DOMAIN users \ {u} : result.users[w] = users[w]
                    /\ result.users[u].tokenIdentifier = users[u].tokenIdentifier
                    /\ result.users[u].name = identity.name

\* Two new profiles were created, one of them without a name, a stored
\* profile was renamed, and the last call had no identity.
C29_Witness ==
    /\ Cardinality(DOMAIN users) = NumUsers + 2
    /\ \E u \in DOMAIN users \ UserIds : users[u].name = "Anonymous"
    /\ users[1].name = "Ann"
    /\ lastError = "Called storeUser without authentication present"

(***************************************************************************)
(* Properties of useConvexMutation.                                        *)
(***************************************************************************)
InFlight(table) == {c \in DOMAIN table : table[c].status = "pending"}

\* A call that settles in this step is reported: a rejection leaves its
\* error in `error` and throws the same error to the caller, a resolution
\* leaves its response in `data` and returns it.
SettledCallReported ==
    \A c \in DOMAIN calls :
        calls[c].status = "pending" =>
            /\ calls'[c].status = "rejected" =>
                  hook'.error = ErrorOf(c) /\ calls'[c].outcome = hook'.error
            /\ calls'[c].status = "resolved" =>
                  hook'.data = ResponseOf(c) /\ calls'[c].outcome = hook'.data

\* C30 as stated: isLoading is true whenever a call of mutate is in flight,
\* also when calls overlap, and false once every call has settled; a call
\* that rejects leaves its error in `error` and throws it on, a call that
\* resolves leaves its response in `data`.
C30_LoadingProtocol ==
    [][/\ InFlight(calls') # {} => hook'.isLoading
       /\ InFlight(calls') = {} => ~hook'.isLoading
       /\ SettledCallReported]_vars

\* What holds of isLoading: it is false when no call is in flight, and true
\* while calls are in flight and none has settled yet; settled calls are
\* reported as claimed.
LoadingProtocolWithoutOverlap ==
    [][/\ InFlight(calls') = {} => ~hook'.isLoading
       /\ (InFlight(calls') = DOMAIN calls' /\ calls' # <<>>) => hook'.isLoading
       /\ SettledCallReported]_vars
====
